---- MODULE Spec2Model ----
(***************************************************************************)
(* Model of the nixos-installer orchestration core: the foreground event   *)
(* loop of main.rs (run), the wizard step machine of app.rs (App), the     *)
(* clone worker of disk.rs (clone_repo) and the install worker spawned by  *)
(* App::start_installation.  Each atomic action is either one pass of the  *)
(* foreground through a part of its loop body, or one critical section /   *)
(* one external command of a worker thread.                                *)
(*                                                                         *)
(* Not modelled: rendering and the scroll offsets it maintains, the color  *)
(* theme, the contents of generated files, the module lists offered for    *)
(* selection (only the per-user routing flag needs_hm_selection is kept),  *)
(* accept_flake_config, which only changes the environment of the install  *)
(* command, terminal I/O errors, which end run through `?`, and failures   *)
(* to open or write the log file, which the program ignores.               *)
(*                                                                         *)
(* Specifications.  ProgramSpec is the whole program from App::new.  Spec  *)
(* is the program on the steps where a worker exists or is started         *)
(* (CloningRepo, Confirm, Installing), from App::new with a repository to  *)
(* clone and from Confirm with every step answered.  InstallSpec is the    *)
(* install worker alone, ParseSpec the clone worker alone on whatever git  *)
(* prints, MountSpec disk::format_and_mount command by command.  The       *)
(* remaining specifications are the foreground loop on a part of the       *)
(* wizard: SizeSpec on the two size inputs, PlanSpec from CreateUser to    *)
(* the start of the installation, WizardSpec on every step but             *)
(* CloningRepo, before and after the installation, InputSpec on the text   *)
(* inputs, RouteSpec on the per-user module steps, AccountSpec from        *)
(* CreateUser to Confirm with the answers of user_config_exists taken      *)
(* from one repository, LabelSpec on the custom partition steps, WalkSpec  *)
(* on the two per-user walks.  RunSpec is one run from Confirm to the end  *)
(* of the program, foreground and install worker together.  LiveSpec is    *)
(* the install worker and the foreground loop on Installing under weak     *)
(* fairness of both threads.                                               *)
(***************************************************************************)
EXTENDS Integers, Sequences, FiniteSets, TLC

\* ------------------------------------------------------------------ bounds
MaxHooks == 2          \* a hook list holds no hook or this many
MaxUsers == 2          \* an installation run writes this many users
MaxParts == 2          \* at most this many custom partitions are entered
MaxInput == 1          \* text inputs hold at most this many characters
MaxMount == 2          \* a typed mount point holds at most this many
MaxDigits == 2         \* short size inputs hold at most this many characters
MaxCloneLines == 1     \* completed progress lines read from git
MaxLineLen == 4        \* characters of the first line git prints
MaxStreamLines == 1    \* non-blank stderr lines streamed from nixos-install
MaxHookLines == 1      \* non-blank output lines of the one hook of a run that
                       \* prints any
MaxErrLines == 2       \* lines of one error message
MaxRetries == 1        \* password commands that fail in one run
MaxTextLen == 3        \* characters of a text found in an input at Enter

\* ------------------------------------------------------- program constants
BaseStages == 9
InitialInstallTotal == 8
EfiSizeMb == 512
MibPerGib == 1024
U8Max == 255
U64Limbs == 4          \* a u64 is held as four 16-bit limbs, least first,
LimbBase == 65536      \* without leading zero limbs: zero is << >>

None == "None"

\* the log file before the install run: absent or empty, or what an earlier
\* run of the installer left in it
NoLogFile == << >>

StaleLogFile == << [k |-> "stale", s |-> "", i |-> 0] >>

\* ------------------------------------------------------------ small helpers
Last(s) == s[Len(s)]

IsPrefix(s, t) == /\ Len(s) <= Len(t)
                  /\ \A i \in 1..Len(s) : s[i] = t[i]

Digits == <<"0", "1", "2", "3", "4", "5", "6", "7", "8", "9">>

IsDigit(c) == \E d \in 1..10 : Digits[d] = c

DigitVal(c) == (CHOOSE d \in 1..10 : Digits[d] = c) - 1

Whitespace == {" "}

RECURSIVE TrimStart(_)
TrimStart(s) == IF s # <<>> /\ Head(s) \in Whitespace THEN TrimStart(Tail(s)) ELSE s

RECURSIVE TrimEnd(_)
TrimEnd(s) == IF s # <<>> /\ Last(s) \in Whitespace
              THEN TrimEnd(SubSeq(s, 1, Len(s) - 1)) ELSE s

Trim(s) == TrimEnd(TrimStart(s))

\* str::parse::<u64>() / parse::<u8>() on a digit string; None on empty
\* input, on a non-digit, or on overflow of the target width (max).
RECURSIVE ParseDigits(_, _, _)
ParseDigits(s, acc, max) ==
    IF s = <<>> THEN acc
    ELSE IF ~IsDigit(Head(s)) THEN -1
    ELSE IF acc * 10 + DigitVal(Head(s)) > max THEN -1
    ELSE ParseDigits(Tail(s), acc * 10 + DigitVal(Head(s)), max)

ParseUnsigned(s, max) ==
    IF s = <<>> THEN -1
    ELSE IF Head(s) = "+" /\ Len(s) > 1 THEN ParseDigits(Tail(s), 0, max)
    ELSE ParseDigits(s, 0, max)

\* x * m + c on limb sequences of any length (0 < m, 0 <= c, both small)
RECURSIVE BigMulAdd(_, _, _)
BigMulAdd(x, m, c) ==
    IF x = <<>>
    THEN IF c = 0 THEN <<>>
         ELSE <<c % LimbBase>> \o BigMulAdd(<<>>, m, c \div LimbBase)
    ELSE <<(Head(x) * m + c) % LimbBase>>
         \o BigMulAdd(Tail(x), m, (Head(x) * m + c) \div LimbBase)

\* the value of a digit string
RECURSIVE BigDigits(_, _)
BigDigits(s, acc) ==
    IF s = <<>> THEN acc
    ELSE BigDigits(Tail(s), BigMulAdd(acc, 10, DigitVal(Head(s))))

RECURSIVE StripZeroLimbs(_)
StripZeroLimbs(x) ==
    IF x # <<>> /\ Last(x) = 0 THEN StripZeroLimbs(SubSeq(x, 1, Len(x) - 1)) ELSE x

AllDigits(s) == \A i \in 1..Len(s) : IsDigit(s[i])

\* str::parse::<u64>(): << >> for Err, <<v>> for Ok(v).  Err on empty input,
\* on a character that is no digit (one leading '+' is allowed) and on a
\* value of 2^64 or more.
ParseU64(s) ==
    LET d == IF s # <<>> /\ Head(s) = "+" THEN Tail(s) ELSE s IN
    IF d = <<>> \/ ~AllDigits(d) THEN <<>>
    ELSE IF Len(BigDigits(d, <<>>)) > U64Limbs THEN <<>>
    ELSE << BigDigits(d, <<>>) >>

\* v * m on u64: the product overflows, and its low 64 bits
MulOverflows(v, m) == Len(BigMulAdd(v, m, 0)) > U64Limbs

WrappingMul(v, m) ==
    LET p == BigMulAdd(v, m, 0) IN
    StripZeroLimbs(SubSeq(p, 1, IF Len(p) > U64Limbs THEN U64Limbs ELSE Len(p)))

U64(n) == BigMulAdd(<<>>, 1, n)


\* ------------------------------------------------------------------- state
VARIABLES
    main_pc,         \* position of run()'s loop: "loop_top", "after_draw",
                     \* "exited", "panicked"
    app,             \* the App struct (fields used by the orchestration core)
    shared_clone,    \* the CloneState behind shared_clone's mutex
    clone_poisoned,  \* the clone mutex is poisoned
    clone_thread,    \* the clone worker: position and lines read so far
    shared_install,  \* the InstallState behind shared_install's mutex, or None
    install_poisoned,\* the install mutex is poisoned
    install_thread,  \* the install worker: position, captured inputs, locals
    effects,         \* external commands the install worker has completed, and
                     \* the password commands the foreground has run after it,
                     \* in order, each with its outcome
    log_file         \* the lines of the persistent log file LOG_FILE

vars == <<main_pc, app, shared_clone, clone_poisoned, clone_thread,
          shared_install, install_poisoned, install_thread, effects, log_file>>

\* --------------------------------------------------------------- clone side
\* Completed, trimmed, non-empty lines git may print (as character sequences);
\* fixed messages of the program are one-element sequences.
CloneLines == { <<"4", "2", "%">>, <<"1", "0", "0", "%">>, <<"d", "o", "n", "e">> }

Msg(text) == <<text>>

NewCloneState == [log |-> <<>>, phase |-> Msg(""), percent |-> 0,
                  error |-> None, done |-> FALSE]

\* line.find('%'): index of the first '%', 0 when absent
FindPercentSign(line) ==
    IF \E i \in 1..Len(line) : line[i] = "%"
    THEN CHOOSE i \in 1..Len(line) :
            line[i] = "%" /\ \A j \in 1..(i - 1) : line[j] # "%"
    ELSE 0

\* Variant of DigitsBefore that reads a single digit.
DigitsBeforeOneDigit(line, pos) ==
    IF pos > 1 /\ IsDigit(line[pos - 1]) THEN <<line[pos - 1]>> ELSE <<>>

\* the digits immediately before position pos, in reading order
RECURSIVE DigitsBefore(_, _)
DigitsBefore(line, pos) ==
    IF pos > 1 /\ IsDigit(line[pos - 1])
    THEN Append(DigitsBefore(line, pos - 1), line[pos - 1])
    ELSE <<>>

\* the percentage clone_repo stores for a line, or -1 when it stores none
ExtractPercent(line) ==
    IF FindPercentSign(line) = 0 THEN -1
    ELSE ParseUnsigned(DigitsBefore(line, FindPercentSign(line)), U8Max)

CloneLocked == {"log_start", "set_phase", "line", "flush", "log_result", "set_result"}

CloneRunning == clone_thread.pc \notin {"none", "returned", "panicked"}

CloneVarsUnchanged == UNCHANGED <<main_pc, app, shared_install, install_poisoned,
                                  install_thread, effects, log_file>>

CloneLogStart ==
    /\ clone_thread.pc = "log_start"
    /\ shared_clone' = [shared_clone EXCEPT !.log = Append(@, Msg("Cloning..."))]
    /\ clone_thread' = [clone_thread EXCEPT !.pc = "set_phase"]
    /\ UNCHANGED clone_poisoned
    /\ CloneVarsUnchanged

CloneSetPhase ==
    /\ clone_thread.pc = "set_phase"
    /\ shared_clone' = [shared_clone EXCEPT !.phase = Msg("Starting clone...")]
    /\ clone_thread' = [clone_thread EXCEPT !.pc = "spawn"]
    /\ UNCHANGED clone_poisoned
    /\ CloneVarsUnchanged

\* cmd.spawn(): the child starts, or the spawn fails
CloneSpawn ==
    /\ clone_thread.pc = "spawn"
    /\ \/ clone_thread' = [clone_thread EXCEPT !.pc = "read"]
       \/ clone_thread' = [clone_thread EXCEPT !.pc = "log_result",
                                               !.result = "Failed to run git clone"]
    /\ UNCHANGED <<shared_clone, clone_poisoned>>
    /\ CloneVarsUnchanged

\* the byte loop completes one non-empty line, or the stream ends with or
\* without a partial line in the buffer
CloneRead ==
    /\ clone_thread.pc = "read"
    /\ \/ /\ clone_thread.lines < MaxCloneLines
          /\ \E l \in CloneLines :
                clone_thread' = [clone_thread EXCEPT !.pc = "line", !.buf = l,
                                                     !.lines = @ + 1]
       \/ \E l \in CloneLines :
                clone_thread' = [clone_thread EXCEPT !.pc = "flush", !.buf = l]
       \/ clone_thread' = [clone_thread EXCEPT !.pc = "wait"]
    /\ UNCHANGED <<shared_clone, clone_poisoned>>
    /\ CloneVarsUnchanged

CloneLine ==
    /\ clone_thread.pc = "line"
    /\ LET line == clone_thread.buf
           pct == ExtractPercent(line)
       IN shared_clone' = [shared_clone EXCEPT
                !.phase = line,
                !.percent = IF pct >= 0 THEN pct ELSE @,
                !.log = Append(@, line)]
    /\ clone_thread' = [clone_thread EXCEPT !.pc = "read", !.buf = <<>>]
    /\ UNCHANGED clone_poisoned
    /\ CloneVarsUnchanged

CloneFlush ==
    /\ clone_thread.pc = "flush"
    /\ shared_clone' = [shared_clone EXCEPT !.log = Append(@, clone_thread.buf)]
    /\ clone_thread' = [clone_thread EXCEPT !.pc = "wait", !.buf = <<>>]
    /\ UNCHANGED clone_poisoned
    /\ CloneVarsUnchanged

\* child.wait(): success, a nonzero exit, or a failure to wait
CloneWait ==
    /\ clone_thread.pc = "wait"
    /\ \E r \in {"Clone completed successfully.", "git clone failed with exit code",
                 "Failed to wait for git clone"} :
          clone_thread' = [clone_thread EXCEPT !.pc = "log_result", !.result = r]
    /\ UNCHANGED <<shared_clone, clone_poisoned>>
    /\ CloneVarsUnchanged

\* Variant of CloneLogResult that already sets done in the critical section
\* that logs the success message.
CloneLogResultSettingDone ==
    /\ clone_thread.pc = "log_result"
    /\ shared_clone' =
          [shared_clone EXCEPT
             !.log = Append(@, Msg(clone_thread.result)),
             !.done = (clone_thread.result = "Clone completed successfully.")]
    /\ clone_thread' = [clone_thread EXCEPT !.pc = "set_result"]
    /\ UNCHANGED clone_poisoned
    /\ CloneVarsUnchanged

CloneLogResult ==
    /\ clone_thread.pc = "log_result"
    /\ shared_clone' = [shared_clone EXCEPT !.log = Append(@, Msg(clone_thread.result))]
    /\ clone_thread' = [clone_thread EXCEPT !.pc = "set_result"]
    /\ UNCHANGED clone_poisoned
    /\ CloneVarsUnchanged

\* Variant of CloneSetResult that sets done whatever the outcome, next to the
\* error of a failed clone.
CloneSetResultAlwaysDone ==
    /\ clone_thread.pc = "set_result"
    /\ IF clone_thread.result = "Clone completed successfully."
       THEN shared_clone' = [shared_clone EXCEPT !.percent = 100,
                                                 !.phase = Msg("Clone complete!"),
                                                 !.done = TRUE]
       ELSE shared_clone' = [shared_clone EXCEPT !.error = clone_thread.result,
                                                 !.done = TRUE]
    /\ clone_thread' = [clone_thread EXCEPT !.pc = "returned"]
    /\ UNCHANGED clone_poisoned
    /\ CloneVarsUnchanged

CloneSetResult ==
    /\ clone_thread.pc = "set_result"
    /\ IF clone_thread.result = "Clone completed successfully."
       THEN shared_clone' = [shared_clone EXCEPT !.percent = 100,
                                                 !.phase = Msg("Clone complete!"),
                                                 !.done = TRUE]
       ELSE shared_clone' = [shared_clone EXCEPT !.error = clone_thread.result]
    /\ clone_thread' = [clone_thread EXCEPT !.pc = "returned"]
    /\ UNCHANGED clone_poisoned
    /\ CloneVarsUnchanged

\* the worker panics inside a critical section: the mutex is poisoned and the
\* thread is gone
ClonePanic ==
    /\ clone_thread.pc \in CloneLocked
    /\ clone_poisoned' = TRUE
    /\ clone_thread' = [clone_thread EXCEPT !.pc = "panicked"]
    /\ UNCHANGED shared_clone
    /\ CloneVarsUnchanged

\* ----------------------------------------------------------- wizard (App)
\* Characters the operator can type into each text field.
HostChars == {"h"}
UserChars == {"a"}
SwapChars == {"0"}
MountChars == {"/"}
SizeChars == {"1"}
PasswordChars == {"x"}

\* What the collaborators can return.
PresetScans == { <<>>, << <<"p">> >> }
DiskScans == { <<>>, <<"sda">> }
HookLists == { [i \in 1..n |-> i] : n \in 0..MaxHooks }

\* hook lists of the installer's own config.toml: none, or MaxHooks of each
InstallerHookLists == { <<>>, [i \in 1..MaxHooks |-> i] }

FsTypeAll == <<"Fat32", "Ext4", "Btrfs", "Swap">>

ListNext(len, cursor) == IF len = 0 THEN cursor ELSE (cursor + 1) % len

ListPrev(len, cursor) ==
    IF len = 0 THEN cursor ELSE IF cursor = 0 THEN len - 1 ELSE cursor - 1

NewApp(step0, presets0, status0, pre0, post0) ==
    [ step |-> step0, should_quit |-> FALSE, status_message |-> status0,
      clone_log |-> <<>>, clone_phase |-> Msg(""), clone_percent |-> 0,
      clone_error |-> None, clone_done |-> FALSE,
      presets |-> presets0, preset_cursor |-> 0, is_custom |-> FALSE,
      host_name |-> <<>>, host_name_input |-> <<>>,
      users |-> <<>>, current_username |-> <<>>,
      current_password |-> <<>>, current_password_confirm |-> <<>>,
      password_mismatch |-> FALSE,
      hm_user_index |-> 0,
      disks |-> <<>>, disk_cursor |-> 0, selected_disk |-> None,
      partition_mode |-> "FullDisk", partition_mode_cursor |-> 0,
      swap_size_input |-> <<"4">>, partitions |-> <<>>,
      part_mount_input |-> <<>>, part_size_input |-> <<>>, part_fs_cursor |-> 0,
      confirm_cursor |-> 0,
      root_password |-> <<>>, root_password_confirm |-> <<>>,
      root_password_mismatch |-> FALSE,
      password_user_index |-> 0,
      another_user_cursor |-> 0, another_partition_cursor |-> 0,
      install_log |-> <<>>, install_progress |-> 0,
      install_total |-> InitialInstallTotal,
      install_error |-> None, install_done |-> FALSE,
      reboot_cursor |-> 0,
      pre_install_hooks |-> pre0, post_install_hooks |-> post0 ]

\* shared_install is None until start_installation creates the state; an
\* optional value is the empty sequence (None) or a one-element sequence.
NoInstallState == [exists |-> FALSE, log |-> <<>>, progress |-> 0, total |-> 0,
                   error |-> None, done |-> FALSE]

\* no install worker has been spawned
NoThread == [pc |-> "none", disk_path |-> None, is_custom |-> FALSE, users |-> <<>>,
             pre_hooks |-> <<>>, post_hooks |-> <<>>, step_counter |-> 0,
             idx |-> 0, lines |-> 0, hook_lines |-> 0, err |-> None,
             err_lines |-> 0]

NoCloneThread == [pc |-> "none", lines |-> 0, buf |-> <<>>, result |-> None]

\* App::new without a local repository: the wizard starts at CloningRepo and
\* start_clone has spawned the clone worker
CloneInit ==
    /\ main_pc = "loop_top"
    /\ \E hooks \in InstallerHookLists :
          app = NewApp("CloningRepo", <<>>, None, hooks, hooks)
    /\ clone_thread = [NoCloneThread EXCEPT !.pc = "log_start"]
    /\ shared_clone = NewCloneState
    /\ clone_poisoned = FALSE
    /\ shared_install = NoInstallState
    /\ install_poisoned = FALSE
    /\ install_thread = NoThread
    /\ effects = <<>>
    /\ log_file = NoLogFile

\* App::new with a local repository: the wizard starts at SelectPreset with
\* the scan results and no clone worker
LocalInit ==
    /\ main_pc = "loop_top"
    /\ \E hooks \in InstallerHookLists, ps \in PresetScans,
          st \in {None, "base path warnings"} :
          app = NewApp("SelectPreset", ps, st, hooks, hooks)
    /\ clone_thread = NoCloneThread
    /\ shared_clone = NewCloneState
    /\ clone_poisoned = FALSE
    /\ shared_install = NoInstallState
    /\ install_poisoned = FALSE
    /\ install_thread = NoThread
    /\ effects = <<>>
    /\ log_file = NoLogFile

Init == CloneInit \/ LocalInit

SyncCloneState(a) ==
    IF clone_poisoned
    THEN [a EXCEPT !.clone_error = "Clone thread crashed unexpectedly",
                   !.clone_done = TRUE]
    ELSE [a EXCEPT !.clone_log = shared_clone.log,
                   !.clone_phase = shared_clone.phase,
                   !.clone_percent = shared_clone.percent,
                   !.clone_error = shared_clone.error,
                   !.clone_done = shared_clone.done]

\* Variant of SyncInstallState that skips the copy when the lock is poisoned
\* and reports nothing.
SyncInstallStateIgnoringPoison(a) ==
    IF ~shared_install.exists \/ install_poisoned THEN a
    ELSE [a EXCEPT !.install_log = shared_install.log,
                   !.install_progress = shared_install.progress,
                   !.install_total = shared_install.total,
                   !.install_error = shared_install.error,
                   !.install_done = shared_install.done]

SyncInstallState(a) ==
    IF ~shared_install.exists THEN a
    ELSE IF install_poisoned
    THEN [a EXCEPT !.install_error = "Installation thread crashed unexpectedly"]
    ELSE [a EXCEPT !.install_log = shared_install.log,
                   !.install_progress = shared_install.progress,
                   !.install_total = shared_install.total,
                   !.install_error = shared_install.error,
                   !.install_done = shared_install.done]

\* finish_clone: rescan the cloned repository and advance; the repository's
\* config.toml replaces a hook list when it configures a non-empty one.
FinishClone(a, warnings, ps, repo_pre, repo_post) ==
    [a EXCEPT !.status_message = IF warnings THEN "base path warnings" ELSE @,
              !.presets = ps,
              !.pre_install_hooks = IF repo_pre # <<>> THEN repo_pre ELSE @,
              !.post_install_hooks = IF repo_post # <<>> THEN repo_post ELSE @,
              !.step = "SelectPreset"]

\* Variant of GoBack that knows the step HostName alone and empties its
\* input on the way back.
GoBackClearingHostName(a) ==
    IF a.step = "HostName"
    THEN <<TRUE, [a EXCEPT !.step = "SelectPreset", !.host_name_input = <<>>]>>
    ELSE <<FALSE, a>>

\* Variant of GoBack that refuses on every step.
GoBackRefusing(a) == <<FALSE, a>>

\* go_back: <<went back, the App afterwards>>
GoBack(a) ==
    CASE a.step = "HostName" -> <<TRUE, [a EXCEPT !.step = "SelectPreset"]>>
      [] a.step = "SelectNixosModules" -> <<TRUE, [a EXCEPT !.step = "HostName"]>>
      [] a.step = "SelectSystemPackages" ->
            <<TRUE, [a EXCEPT !.step = "SelectNixosModules"]>>
      [] a.step = "CreateUser" ->
            <<TRUE, [a EXCEPT !.step = IF a.is_custom THEN "SelectSystemPackages"
                                        ELSE "SelectPreset"]>>
      [] a.step = "PartitionModeSelect" -> <<TRUE, [a EXCEPT !.step = "SelectDisk"]>>
      [] a.step = "SwapSize" -> <<TRUE, [a EXCEPT !.step = "PartitionModeSelect"]>>
      [] a.step = "CustomPartitionMount" ->
            <<TRUE, [a EXCEPT !.step = IF a.partitions = <<>>
                                        THEN "PartitionModeSelect"
                                        ELSE "CustomPartitionAnother"]>>
      [] a.step = "CustomPartitionSize" ->
            <<TRUE, [a EXCEPT !.step = "CustomPartitionMount"]>>
      [] a.step = "CustomPartitionFs" ->
            <<TRUE, [a EXCEPT !.step = "CustomPartitionSize"]>>
      [] a.step = "Confirm" -> <<TRUE, [a EXCEPT !.step = "PartitionModeSelect"]>>
      [] OTHER -> <<FALSE, a>>

\* prefill_username_if_empty: no default_username is configured
PrefillUsernameIfEmpty(a) == a

ConfirmPresetSelection(a) ==
    IF a.preset_cursor >= Len(a.presets) + 1 THEN a
    ELSE IF a.preset_cursor = Len(a.presets)
    THEN [a EXCEPT !.is_custom = TRUE, !.step = "HostName"]
    ELSE [PrefillUsernameIfEmpty(a) EXCEPT
              !.is_custom = FALSE,
              !.host_name = a.presets[a.preset_cursor + 1],
              !.step = "CreateUser"]

\* Variant of ConfirmHostName without the test for an empty name.
ConfirmHostNameAcceptingEmpty(a) ==
    [a EXCEPT !.host_name = Trim(a.host_name_input),
              !.step = "SelectNixosModules", !.status_message = None]

ConfirmHostName(a) ==
    IF Trim(a.host_name_input) = <<>>
    THEN [a EXCEPT !.status_message = "Host name cannot be empty"]
    ELSE [a EXCEPT !.host_name = Trim(a.host_name_input),
                   !.step = "SelectNixosModules", !.status_message = None]

ConfirmNixosModules(a) == [a EXCEPT !.step = "SelectSystemPackages"]

ConfirmSystemPackages(a) == [PrefillUsernameIfEmpty(a) EXCEPT !.step = "CreateUser"]

IsAsciiLowercase(c) ==
    c \in {"a", "b", "c", "d", "e", "f", "g", "h", "i", "j", "k", "l", "m",
           "n", "o", "p", "q", "r", "s", "t", "u", "v", "w", "x", "y", "z"}

\* Variant of UsernameCharsOk that lets a name start with any of the
\* characters allowed inside it.
UsernameCharsOkAnyFirst(name) ==
    \A i \in 1..Len(name) :
       IsAsciiLowercase(name[i]) \/ IsDigit(name[i]) \/ name[i] \in {"-", "_"}

UsernameCharsOk(name) ==
    /\ \A i \in 1..Len(name) :
          IsAsciiLowercase(name[i]) \/ IsDigit(name[i]) \/ name[i] \in {"-", "_"}
    /\ name # <<>> /\ (IsAsciiLowercase(name[1]) \/ name[1] = "_")

\* Variant of ConfirmUsername that empties the input when it rejects a
\* duplicate.
ConfirmUsernameClearingDuplicate(a, config_exists) ==
    LET name == Trim(a.current_username) IN
    IF name = <<>>
    THEN [a EXCEPT !.status_message = "Username cannot be empty"]
    ELSE IF ~UsernameCharsOk(name)
    THEN [a EXCEPT !.status_message =
                     "Username must start with a lowercase letter or underscore"]
    ELSE IF \E i \in 1..Len(a.users) : a.users[i].username = name
    THEN [a EXCEPT !.status_message = "User already exists",
                   !.current_username = <<>>]
    ELSE [a EXCEPT !.status_message = None,
                   !.users = Append(@, [username |-> name, password |-> <<>>,
                                        needs_hm_selection |-> ~config_exists]),
                   !.current_username = <<>>,
                   !.step = "AddAnotherUser"]

\* confirm_username; config_exists is nix::user_config_exists for the name
\* Variant of ConfirmUsername without the test for a duplicate.
ConfirmUsernameAcceptingDuplicate(a, config_exists) ==
    LET name == Trim(a.current_username) IN
    IF name = <<>>
    THEN [a EXCEPT !.status_message = "Username cannot be empty"]
    ELSE IF ~UsernameCharsOk(name)
    THEN [a EXCEPT !.status_message =
                     "Username must start with a lowercase letter or underscore"]
    ELSE [a EXCEPT !.status_message = None,
                   !.users = Append(@, [username |-> name, password |-> <<>>,
                                        needs_hm_selection |-> ~config_exists]),
                   !.current_username = <<>>,
                   !.step = "AddAnotherUser"]

ConfirmUsername(a, config_exists) ==
    LET name == Trim(a.current_username) IN
    IF name = <<>>
    THEN [a EXCEPT !.status_message = "Username cannot be empty"]
    ELSE IF ~UsernameCharsOk(name)
    THEN [a EXCEPT !.status_message =
                     "Username must start with a lowercase letter or underscore"]
    ELSE IF \E i \in 1..Len(a.users) : a.users[i].username = name
    THEN [a EXCEPT !.status_message = "User already exists"]
    ELSE [a EXCEPT !.status_message = None,
                   !.users = Append(@, [username |-> name, password |-> <<>>,
                                        needs_hm_selection |-> ~config_exists]),
                   !.current_username = <<>>,
                   !.step = "AddAnotherUser"]

\* go_to_disk_selection; listing is the result of disk::list_block_devices
GoToDiskSelection(a, listing) ==
    [a EXCEPT !.disks = IF listing.ok THEN listing.disks ELSE <<>>,
              !.status_message = IF listing.ok THEN @ ELSE "Failed to list disks",
              !.disk_cursor = 0,
              !.step = "SelectDisk"]

\* Variant of AdvanceToNextHmUser that shows the selection steps to every
\* user.
AdvanceToEveryUser(a, listing) ==
    IF a.hm_user_index < Len(a.users)
    THEN [a EXCEPT !.step = "SelectHmModules"]
    ELSE GoToDiskSelection(a, listing)

RECURSIVE AdvanceToNextHmUser(_, _)
AdvanceToNextHmUser(a, listing) ==
    IF a.hm_user_index < Len(a.users)
    THEN IF a.users[a.hm_user_index + 1].needs_hm_selection
         THEN [a EXCEPT !.step = "SelectHmModules"]
         ELSE AdvanceToNextHmUser([a EXCEPT !.hm_user_index = @ + 1], listing)
    ELSE GoToDiskSelection(a, listing)

BeginHmSelection(a, listing) ==
    AdvanceToNextHmUser([a EXCEPT !.hm_user_index = 0], listing)

ConfirmAnotherUser(a, listing) ==
    [ (IF a.another_user_cursor = 0
       THEN [a EXCEPT !.step = "CreateUser"]
       ELSE BeginHmSelection(a, listing))
      EXCEPT !.another_user_cursor = 0 ]

ConfirmHmModules(a) == [a EXCEPT !.step = "SelectUserPackages"]

ConfirmUserPackages(a, listing) ==
    AdvanceToNextHmUser([a EXCEPT !.hm_user_index = @ + 1], listing)

ConfirmDisk(a) ==
    IF a.disks = <<>>
    THEN [a EXCEPT !.status_message = "No disks available"]
    ELSE [a EXCEPT !.selected_disk = a.disks[a.disk_cursor + 1],
                   !.status_message = None,
                   !.step = "PartitionModeSelect"]

ConfirmPartitionMode(a) ==
    IF a.partition_mode_cursor = 0
    THEN [a EXCEPT !.partition_mode = "FullDisk", !.step = "SwapSize"]
    ELSE [a EXCEPT !.partition_mode = "Custom", !.partitions = <<>>,
                   !.step = "CustomPartitionMount"]

Plan(label, mount, size, fs) ==
    [label |-> label, mount_point |-> mount, size_mb |-> size, fs_type |-> fs]

\* the swap size in GiB that confirm_swap_size reads: << >> when the input
\* does not parse, <<v>> otherwise
SwapGb(a) ==
    IF Trim(a.swap_size_input) = <<>> THEN << U64(0) >>
    ELSE ParseU64(Trim(a.swap_size_input))

\* confirm_swap_size in a build without overflow checks: `swap_gb * 1024`
\* wraps
ConfirmSwapSize(a) ==
    IF SwapGb(a) = <<>>
    THEN [a EXCEPT !.status_message = "Invalid swap size"]
    ELSE [a EXCEPT
            !.partitions =
                <<Plan(<<"E", "F", "I">>, <<"/", "b", "o", "o", "t">>,
                       <<U64(EfiSizeMb)>>, "Fat32")>>
                \o (IF SwapGb(a)[1] # U64(0)
                    THEN <<Plan(<<"s", "w", "a", "p">>, <<"s", "w", "a", "p">>,
                                <<WrappingMul(SwapGb(a)[1], MibPerGib)>>, "Swap")>>
                    ELSE <<>>)
                \o <<Plan(<<"r", "o", "o", "t">>, <<"/">>, <<>>, "Ext4")>>,
            !.step = "Confirm"]

\* `swap_gb * 1024` overflows: a build with overflow checks panics there
SwapSizeOverflows(a) ==
    SwapGb(a) # <<>> /\ MulOverflows(SwapGb(a)[1], MibPerGib)

ConfirmCustomMount(a) ==
    LET mount == Trim(a.part_mount_input) IN
    IF mount = <<>>
    THEN [a EXCEPT !.status_message = "Mount point cannot be empty"]
    ELSE IF mount # <<"s", "w", "a", "p">> /\ Head(mount) # "/"
    THEN [a EXCEPT !.status_message = "Mount point must start with '/' or be 'swap'"]
    ELSE [a EXCEPT !.status_message = None, !.step = "CustomPartitionSize"]

ConfirmCustomSize(a) == [a EXCEPT !.status_message = None, !.step = "CustomPartitionFs"]

\* mount.trim_start_matches('/').replace('/', "-")
RECURSIVE TrimStartSlashes(_)
TrimStartSlashes(s) ==
    IF s # <<>> /\ Head(s) = "/" THEN TrimStartSlashes(Tail(s)) ELSE s

\* Variant of PartitionLabel that replaces every slash, the leading ones
\* included.
PartitionLabelHyphenating(mount) ==
    IF mount = <<"/">> THEN <<"r", "o", "o", "t">>
    ELSE IF mount = <<"/", "b", "o", "o", "t">> THEN <<"E", "F", "I">>
    ELSE IF mount = <<"s", "w", "a", "p">> THEN <<"s", "w", "a", "p">>
    ELSE [i \in 1..Len(mount) |-> IF mount[i] = "/" THEN "-" ELSE mount[i]]

PartitionLabel(mount) ==
    IF mount = <<"/">> THEN <<"r", "o", "o", "t">>
    ELSE IF mount = <<"/", "b", "o", "o", "t">> THEN <<"E", "F", "I">>
    ELSE IF mount = <<"s", "w", "a", "p">> THEN <<"s", "w", "a", "p">>
    ELSE [i \in 1..Len(TrimStartSlashes(mount)) |->
            IF TrimStartSlashes(mount)[i] = "/" THEN "-" ELSE TrimStartSlashes(mount)[i]]

\* confirm_custom_fs in a build without overflow checks: `v * 1024` wraps
ConfirmCustomFs(a) ==
    LET mount == Trim(a.part_mount_input)
        size_in == Trim(a.part_size_input)
        v == ParseU64(size_in)
    IN IF size_in # <<>> /\ v = << U64(0) >>
       THEN [a EXCEPT !.status_message = "Size must be greater than 0."]
       ELSE IF size_in # <<>> /\ v = <<>>
       THEN [a EXCEPT !.status_message = "Invalid size"]
       ELSE [a EXCEPT
               !.partitions = Append(@,
                   Plan(PartitionLabel(mount), mount,
                        IF size_in = <<>> THEN <<>>
                        ELSE <<WrappingMul(v[1], MibPerGib)>>,
                        FsTypeAll[a.part_fs_cursor + 1])),
               !.part_mount_input = <<>>,
               !.part_size_input = <<>>,
               !.part_fs_cursor = 0,
               !.step = "CustomPartitionAnother"]

\* `v * 1024` overflows: a build with overflow checks panics there
CustomSizeOverflows(a) ==
    /\ ParseU64(Trim(a.part_size_input)) # <<>>
    /\ MulOverflows(ParseU64(Trim(a.part_size_input))[1], MibPerGib)

ConfirmCustomAnother(a) ==
    [a EXCEPT !.step = IF a.another_partition_cursor = 0
                       THEN "CustomPartitionMount" ELSE "Confirm",
              !.another_partition_cursor = 0]

\* Variant of HasRootPartition that takes any partition for a root.
HasAnyPartition(a) == a.partitions # <<>>

HasRootPartition(a) ==
    \E i \in 1..Len(a.partitions) : a.partitions[i].mount_point = <<"/">>

\* log_install: the foreground appends to its own copy of the log
Line(k, s, i) == [k |-> k, s |-> s, i |-> i]

LogInstall(a, s, i) == [a EXCEPT !.install_log = Append(@, Line("start", s, i))]

ConfirmRootPassword(a) ==
    IF a.root_password = <<>>
    THEN [a EXCEPT !.status_message = "Root password cannot be empty"]
    ELSE [a EXCEPT !.status_message = None, !.step = "RootPasswordConfirm"]

\* Variant of AdvanceToNextUserPassword that ends the collection at once.
AdvanceToComplete(a) == [a EXCEPT !.step = "Complete"]

AdvanceToNextUserPassword(a) ==
    IF a.password_user_index < Len(a.users)
    THEN [a EXCEPT !.current_password = <<>>, !.current_password_confirm = <<>>,
                   !.password_mismatch = FALSE, !.step = "UserPassword"]
    ELSE [a EXCEPT !.step = "Complete"]

BeginUserPasswordCollection(a) ==
    AdvanceToNextUserPassword([a EXCEPT !.password_user_index = 0])

\* Variant of ConfirmRootPasswordConfirm that keeps the first entry when the
\* confirmation differs.
ConfirmRootPasswordConfirmKeepingEntry(a, chpasswd_ok) ==
    IF a.root_password # a.root_password_confirm
    THEN [a EXCEPT !.root_password_mismatch = TRUE,
                   !.root_password_confirm = <<>>, !.step = "RootPassword"]
    ELSE LET b == LogInstall([a EXCEPT !.root_password_mismatch = FALSE],
                             "Setting root password", 0)
         IN IF ~chpasswd_ok
            THEN [b EXCEPT !.status_message = "Failed to set root password",
                           !.root_password = <<>>, !.root_password_confirm = <<>>,
                           !.step = "RootPassword"]
            ELSE BeginUserPasswordCollection(b)

\* confirm_root_password_confirm; chpasswd_ok is the outcome of set_root_password
ConfirmRootPasswordConfirm(a, chpasswd_ok) ==
    IF a.root_password # a.root_password_confirm
    THEN [a EXCEPT !.root_password_mismatch = TRUE, !.root_password = <<>>,
                   !.root_password_confirm = <<>>, !.step = "RootPassword"]
    ELSE LET b == LogInstall([a EXCEPT !.root_password_mismatch = FALSE],
                             "Setting root password", 0)
         IN IF ~chpasswd_ok
            THEN [b EXCEPT !.status_message = "Failed to set root password",
                           !.root_password = <<>>, !.root_password_confirm = <<>>,
                           !.step = "RootPassword"]
            ELSE BeginUserPasswordCollection(b)

ConfirmUserPassword(a) ==
    IF a.current_password = <<>>
    THEN [a EXCEPT !.status_message = "Password cannot be empty"]
    ELSE [a EXCEPT !.status_message = None, !.step = "UserPasswordConfirm"]

ConfirmUserPasswordConfirm(a, chpasswd_ok) ==
    IF a.current_password # a.current_password_confirm
    THEN [a EXCEPT !.password_mismatch = TRUE, !.current_password = <<>>,
                   !.current_password_confirm = <<>>, !.step = "UserPassword"]
    ELSE LET b == LogInstall([a EXCEPT !.password_mismatch = FALSE],
                             "Setting password for user", a.password_user_index)
         IN IF ~chpasswd_ok
            THEN [b EXCEPT !.status_message = "Failed to set password",
                           !.current_password = <<>>,
                           !.current_password_confirm = <<>>,
                           !.step = "UserPassword"]
            ELSE AdvanceToNextUserPassword(
                   [b EXCEPT !.users[b.password_user_index + 1].password =
                                 b.current_password,
                             !.current_password = <<>>,
                             !.current_password_confirm = <<>>,
                             !.password_user_index = @ + 1])

ConfirmReboot(a) == [a EXCEPT !.should_quit = TRUE]

\* ------------------------------------------------- install worker thread
\* the thread start_installation spawns, with the inputs it captured by value
SpawnedThread(a) ==
    [NoThread EXCEPT !.pc = "s1_log", !.disk_path = a.selected_disk,
                     !.is_custom = a.is_custom, !.users = a.users,
                     !.pre_hooks = a.pre_install_hooks,
                     !.post_hooks = a.post_install_hooks]

\* Variant of NewInstallState whose total is the base count alone, without
\* the configured hooks.
NewInstallStateCountingBaseOnly(a) ==
    [exists |-> TRUE, log |-> <<>>, progress |-> 0, total |-> BaseStages,
     error |-> None, done |-> FALSE]

NewInstallState(a) ==
    [exists |-> TRUE, log |-> <<>>, progress |-> 0,
     total |-> BaseStages + Len(a.pre_install_hooks) + Len(a.post_install_hooks),
     error |-> None, done |-> FALSE]

InstallLocked ==
    {"s1_log", "s1_progress", "s2_log", "s2_progress", "s3_log", "s3_progress",
     "s4_log", "s4_progress", "s5_progress", "s5_log", "s6_log", "s7_log",
     "s7_progress", "pre_log", "pre_progress", "pre_out", "inst_log",
     "inst_progress", "inst_line", "copy_progress", "copy_log", "post_log",
     "post_progress", "post_out", "fin_progress", "fin_log", "fin_done",
     "log_error", "fail"}

InstallRunning == install_thread.pc \notin {"none", "returned", "panicked"}

LogVarsUnchanged == UNCHANGED <<main_pc, app, shared_clone, clone_poisoned,
                                clone_thread, install_poisoned>>

InstallVarsUnchanged == LogVarsUnchanged /\ UNCHANGED log_file

\* the line that writeln!(f, "{}", msg) adds to the file for a msg of one
\* line, and a line of an error message written without 'ERROR: '
FileLine(msg) == msg

Unprefixed(msg) == [msg EXCEPT !.k = "message"]

\* writeln!(f, "=== NixOS Installer Log ===\n") into the truncated file: the
\* header and an empty line
TruncatedLogFile == << [k |-> "header", s |-> "=== NixOS Installer Log ===", i |-> 0],
                       [k |-> "blank", s |-> "", i |-> 0] >>


Goto(next) == [install_thread EXCEPT !.pc = next]

\* Variant of Log that replaces the log by the new line.
LogOverwriting(pc, msg, after) ==
    /\ install_thread.pc = pc
    /\ shared_install' = [shared_install EXCEPT !.log = << msg >>]
    /\ log_file' = Append(log_file, FileLine(msg))
    /\ install_thread' = after
    /\ UNCHANGED effects
    /\ LogVarsUnchanged

\* the closure `log`: one critical section that appends msg, then one
\* writeln! of msg at the end of the file
Log(pc, msg, after) ==
    /\ install_thread.pc = pc
    /\ shared_install' = [shared_install EXCEPT !.log = Append(@, msg)]
    /\ log_file' = Append(log_file, FileLine(msg))
    /\ install_thread' = after
    /\ UNCHANGED effects
    /\ LogVarsUnchanged

\* the truncation of the file and its header, then the first `log`
TruncateAndLog(pc, msg, after) ==
    /\ install_thread.pc = pc
    /\ shared_install' = [shared_install EXCEPT !.log = Append(@, msg)]
    /\ log_file' = Append(TruncatedLogFile, FileLine(msg))
    /\ install_thread' = after
    /\ UNCHANGED effects
    /\ LogVarsUnchanged

\* the closure `set_progress`: one critical section that stores p
SetProgress(pc, p, after) ==
    /\ install_thread.pc = pc
    /\ shared_install' = [shared_install EXCEPT !.progress = p]
    /\ install_thread' = after
    /\ UNCHANGED effects
    /\ InstallVarsUnchanged

\* the thread after a failed command: msg has 1..MaxErrLines lines
Failed(msg, n) ==
    [install_thread EXCEPT !.pc = "log_error", !.err = msg, !.err_lines = n,
                           !.lines = 0]

\* Variant of Run that keeps the lock while the command runs and records its
\* outcome in the log inside the same critical section.
RunHoldingLock(pc, op, i, msg, after) ==
    /\ install_thread.pc = pc
    /\ \/ /\ effects' = Append(effects, [op |-> op, i |-> i, ok |-> TRUE])
          /\ install_thread' = after
       \/ /\ effects' = Append(effects, [op |-> op, i |-> i, ok |-> FALSE])
          /\ \E n \in 1..MaxErrLines : install_thread' = Failed(msg, n)
    /\ shared_install' = [shared_install EXCEPT !.log = Append(@, [k |-> "ran", s |-> op, i |-> i])]
    /\ InstallVarsUnchanged

\* one external command of a stage: it succeeds and the thread continues as
\* `after`, or it fails and the thread goes on to log_error
Run(pc, op, i, msg, after) ==
    /\ install_thread.pc = pc
    /\ \/ /\ effects' = Append(effects, [op |-> op, i |-> i, ok |-> TRUE])
          /\ install_thread' = after
       \/ /\ effects' = Append(effects, [op |-> op, i |-> i, ok |-> FALSE])
          /\ \E n \in 1..MaxErrLines : install_thread' = Failed(msg, n)
    /\ UNCHANGED shared_install
    /\ InstallVarsUnchanged

Stage1Partition ==
    \/ TruncateAndLog("s1_log", Line("start", "Partitioning", 0), Goto("s1_progress"))
    \/ SetProgress("s1_progress", 1, Goto("s1_run"))
    \/ Run("s1_run", "partition_disk", 0, "Partitioning failed", Goto("s2_log"))

Stage2FormatMount ==
    \/ Log("s2_log", Line("start", "Formatting and mounting partitions", 0),
           Goto("s2_progress"))
    \/ SetProgress("s2_progress", 2, Goto("s2_run"))
    \/ Run("s2_run", "format_and_mount", 0, "Format/mount failed", Goto("s3_log"))

\* Variant of Stage3GenerateHardwareConfig that stores the counter once the
\* command has succeeded instead of before running it.
Stage3ProgressOnCompletion ==
    \/ Log("s3_log", Line("start", "Generating hardware configuration", 0),
           Goto("s3_run"))
    \/ Run("s3_run", "generate_hardware_config", 0,
           "Hardware config generation failed", Goto("s3_progress"))
    \/ SetProgress("s3_progress", 3, Goto("s4_log"))

Stage3GenerateHardwareConfig ==
    \/ Log("s3_log", Line("start", "Generating hardware configuration", 0),
           Goto("s3_progress"))
    \/ SetProgress("s3_progress", 3, Goto("s3_run"))
    \/ Run("s3_run", "generate_hardware_config", 0,
           "Hardware config generation failed", Goto("s4_log"))

Stage4WriteHardwareConfig ==
    \/ Log("s4_log", Line("start", "Writing hardware configuration", 0),
           Goto("s4_progress"))
    \/ SetProgress("s4_progress", 4, Goto("s4_run"))
    \/ Run("s4_run", "write_hardware_config", 0, "Failed to write hardware config",
           Goto("s5_progress"))

\* Variant of UserLoop that leaves the loop after the first user.
UserLoopFirstOnly(i) ==
    IF i <= 1 /\ i <= Len(install_thread.users)
    THEN [install_thread EXCEPT !.pc = "s6_log", !.idx = i]
    ELSE [install_thread EXCEPT !.pc = "s7_log", !.idx = 0]

\* `for user in &users`: the thread about to handle user number i (from 1),
\* or past the loop, at git staging
UserLoop(i) ==
    IF i <= Len(install_thread.users)
    THEN [install_thread EXCEPT !.pc = "s6_log", !.idx = i]
    ELSE [install_thread EXCEPT !.pc = "s7_log", !.idx = 0]

\* Variant of Stage5WriteHostConfig that goes on to git staging, leaving out
\* the user files.
Stage5SkippingUserFiles ==
    \/ SetProgress("s5_progress", 5,
                   IF install_thread.is_custom THEN Goto("s5_log") ELSE Goto("s7_log"))
    \/ Log("s5_log", Line("start", "Writing host configuration", 0), Goto("s5_run"))
    \/ Run("s5_run", "write_host_config", 0, "Failed to write configuration",
           Goto("s7_log"))

Stage5WriteHostConfig ==
    \/ SetProgress("s5_progress", 5,
                   IF install_thread.is_custom THEN Goto("s5_log") ELSE UserLoop(1))
    \/ Log("s5_log", Line("start", "Writing host configuration", 0), Goto("s5_run"))
    \/ Run("s5_run", "write_host_config", 0, "Failed to write configuration",
           UserLoop(1))

Stage6WriteUserFiles ==
    \/ Log("s6_log", Line("start", "Writing user file", install_thread.idx),
           Goto("s6_run"))
    \/ Run("s6_run", "write_user_config", install_thread.idx,
           "Failed to write user config", UserLoop(install_thread.idx + 1))

\* `let mut step_counter = 7; for hook in &pre_hooks`: the thread about to run
\* pre-install hook number i with the counter at c, or past the loop
PreHookLoop(i, c) ==
    IF i <= Len(install_thread.pre_hooks)
    THEN [install_thread EXCEPT !.pc = "pre_log", !.idx = i, !.step_counter = c]
    ELSE [install_thread EXCEPT !.pc = "inst_log", !.idx = 0, !.step_counter = c]

FirstHookStep == 7

\* Variant of Stage7GitAdd that stores 7, the number its comment gives the
\* step, instead of 6.
Stage7GitAddProgressSeven ==
    \/ Log("s7_log", Line("start", "Staging generated files (git add)", 0),
           Goto("s7_progress"))
    \/ SetProgress("s7_progress", 7, Goto("s7_run"))
    \/ Run("s7_run", "git_add_all", 0, "git add failed",
           PreHookLoop(1, FirstHookStep))

Stage7GitAdd ==
    \/ Log("s7_log", Line("start", "Staging generated files (git add)", 0),
           Goto("s7_progress"))
    \/ SetProgress("s7_progress", 6, Goto("s7_run"))
    \/ Run("s7_run", "git_add_all", 0, "git add failed",
           PreHookLoop(1, FirstHookStep))

\* run_hook returned Ok(output) with n non-blank lines still to be logged
HookOutput(pc, n) == [install_thread EXCEPT !.pc = pc, !.lines = n]

\* run_hook returned Ok(output) with n non-blank lines
FirstHookOutput(pc, n) ==
    [install_thread EXCEPT !.pc = pc, !.lines = n, !.hook_lines = @ + n]

\* Variant of PreInstallHooks that logs a failed hook and goes on to the next
\* one instead of failing the run.
PreInstallHooksIgnoringFailure ==
    \/ Log("pre_log", Line("start", "Running pre-install hook", install_thread.idx),
           Goto("pre_progress"))
    \/ SetProgress("pre_progress", install_thread.step_counter, Goto("pre_run"))
    \/ /\ install_thread.pc = "pre_run"
       /\ \E ok \in BOOLEAN :
             effects' = Append(effects, [op |-> "pre_install_hook",
                                         i |-> install_thread.idx, ok |-> ok])
       /\ install_thread' = PreHookLoop(install_thread.idx + 1,
                                        install_thread.step_counter + 1)
       /\ UNCHANGED shared_install
       /\ InstallVarsUnchanged
    \/ Log("pre_out", Line("hook", "[hook]", install_thread.lines),
           PreHookLoop(install_thread.idx + 1, install_thread.step_counter + 1))

PreInstallHooks ==
    \/ Log("pre_log", Line("start", "Running pre-install hook", install_thread.idx),
           Goto("pre_progress"))
    \/ SetProgress("pre_progress", install_thread.step_counter, Goto("pre_run"))
    \/ \E n \in {0, MaxHookLines - install_thread.hook_lines} :
          Run("pre_run", "pre_install_hook", install_thread.idx,
              "Pre-install hook failed",
              IF n > 0 THEN FirstHookOutput("pre_out", n)
              ELSE PreHookLoop(install_thread.idx + 1,
                               install_thread.step_counter + 1))
    \/ Log("pre_out", Line("hook", "[hook]", install_thread.lines),
           IF install_thread.lines > 1
           THEN HookOutput("pre_out", install_thread.lines - 1)
           ELSE [PreHookLoop(install_thread.idx + 1, install_thread.step_counter + 1)
                   EXCEPT !.lines = 0])

\* cmd.spawn(), the stderr line loop and child.wait() of nixos-install
RunNixosInstall ==
    \/ Log("inst_log", Line("start", "Running nixos-install", 0),
           Goto("inst_progress"))
    \/ SetProgress("inst_progress", install_thread.step_counter,
                   [install_thread EXCEPT !.pc = "inst_spawn",
                                          !.step_counter = @ + 1])
    \/ /\ install_thread.pc = "inst_spawn"
       /\ \/ /\ install_thread' = [install_thread EXCEPT !.pc = "inst_read",
                                                         !.lines = 0]
             /\ UNCHANGED effects
          \/ /\ install_thread' = Failed("Failed to run nixos-install", 1)
             /\ effects' = Append(effects, [op |-> "nixos_install", i |-> 0,
                                            ok |-> FALSE])
       /\ UNCHANGED shared_install
       /\ InstallVarsUnchanged
    \/ /\ install_thread.pc = "inst_read"
       /\ \/ /\ install_thread.lines < MaxStreamLines
             /\ install_thread' = [install_thread EXCEPT !.pc = "inst_line",
                                                         !.lines = @ + 1]
             /\ UNCHANGED effects
          \/ /\ install_thread' = [install_thread EXCEPT !.pc = "copy_progress",
                                                         !.lines = 0]
             /\ effects' = Append(effects, [op |-> "nixos_install", i |-> 0,
                                            ok |-> TRUE])
          \/ /\ \E m \in {"nixos-install failed with exit code",
                          "Failed to wait for nixos-install"} :
                   install_thread' = Failed(m, 1)
             /\ effects' = Append(effects, [op |-> "nixos_install", i |-> 0,
                                            ok |-> FALSE])
       /\ UNCHANGED shared_install
       /\ InstallVarsUnchanged
    \/ Log("inst_line", Line("stream", "nixos-install", install_thread.lines),
           Goto("inst_read"))

\* the thread about to run post-install hook number i with the counter at c,
\* or past the loop
PostHookLoop(i, c) ==
    IF i <= Len(install_thread.post_hooks)
    THEN [install_thread EXCEPT !.pc = "post_log", !.idx = i, !.step_counter = c]
    ELSE [install_thread EXCEPT !.pc = "fin_progress", !.idx = 0, !.step_counter = c]

CopyRepoToTarget ==
    \/ SetProgress("copy_progress", install_thread.step_counter,
                   [install_thread EXCEPT !.pc = "copy_log", !.step_counter = @ + 1])
    \/ Log("copy_log", Line("start", "Copying repository to /mnt/etc/nixos/", 0),
           Goto("copy_run"))
    \/ Run("copy_run", "copy_repo_to_target", 0, "Failed to copy repo to target",
           PostHookLoop(1, install_thread.step_counter))

PostInstallHooks ==
    \/ Log("post_log", Line("start", "Running post-install hook", install_thread.idx),
           Goto("post_progress"))
    \/ SetProgress("post_progress", install_thread.step_counter, Goto("post_run"))
    \/ \E n \in {0, MaxHookLines - install_thread.hook_lines} :
          Run("post_run", "post_install_hook", install_thread.idx,
              "Post-install hook failed",
              IF n > 0 THEN FirstHookOutput("post_out", n)
              ELSE PostHookLoop(install_thread.idx + 1,
                                install_thread.step_counter + 1))
    \/ Log("post_out", Line("hook", "[hook]", install_thread.lines),
           IF install_thread.lines > 1
           THEN HookOutput("post_out", install_thread.lines - 1)
           ELSE [PostHookLoop(install_thread.idx + 1, install_thread.step_counter + 1)
                   EXCEPT !.lines = 0])

\* the end of the closure: the last counter value, the completion line, done
FinishInstall ==
    \/ SetProgress("fin_progress", install_thread.step_counter, Goto("fin_log"))
    \/ Log("fin_log", Line("start", "Installation complete!", 0), Goto("fin_done"))
    \/ /\ install_thread.pc = "fin_done"
       /\ shared_install' = [shared_install EXCEPT !.done = TRUE]
       /\ install_thread' = Goto("returned")
       /\ UNCHANGED effects
       /\ InstallVarsUnchanged

\* the lines that writeln!(f, "ERROR: {}", msg) adds to the file for a
\* message of n lines: the prefix stands before the first of them
ErrorFileLines(msg, n) ==
    [j \in 1..n |-> IF j = 1 THEN FileLine(Line("error", msg, 1))
                    ELSE Unprefixed(Line("error", msg, j))]

\* the closure `log_error`: one critical section per line of the message,
\* then one writeln! of the whole message
LogError ==
    /\ install_thread.pc = "log_error"
    /\ shared_install' =
          [shared_install EXCEPT
              !.log = Append(@, Line("error", install_thread.err,
                                     install_thread.lines + 1))]
    /\ IF install_thread.lines + 1 < install_thread.err_lines
       THEN /\ install_thread' = [install_thread EXCEPT !.lines = @ + 1]
            /\ UNCHANGED log_file
       ELSE /\ install_thread' = [install_thread EXCEPT !.pc = "fail", !.lines = 0]
            /\ log_file' = log_file \o ErrorFileLines(install_thread.err,
                                                      install_thread.err_lines)
    /\ UNCHANGED effects
    /\ LogVarsUnchanged

\* Variant of Fail without the `return`: the closure goes on to its end.
FailWithoutReturn ==
    /\ install_thread.pc = "fail"
    /\ shared_install' = [shared_install EXCEPT !.error = install_thread.err]
    /\ install_thread' = Goto("fin_progress")
    /\ UNCHANGED effects
    /\ InstallVarsUnchanged

\* Variant of Fail that returns without storing the error.
FailWithoutStoring ==
    /\ install_thread.pc = "fail"
    /\ install_thread' = Goto("returned")
    /\ UNCHANGED <<shared_install, effects>>
    /\ InstallVarsUnchanged

\* the closure `fail`, and the `return` that follows it
Fail ==
    /\ install_thread.pc = "fail"
    /\ shared_install' = [shared_install EXCEPT !.error = install_thread.err]
    /\ install_thread' = Goto("returned")
    /\ UNCHANGED effects
    /\ InstallVarsUnchanged

\* the worker panics inside a critical section: the mutex is poisoned and the
\* thread is gone
InstallPanic ==
    /\ install_thread.pc \in InstallLocked
    /\ install_poisoned' = TRUE
    /\ install_thread' = Goto("panicked")
    /\ UNCHANGED <<main_pc, app, shared_clone, clone_poisoned, clone_thread,
                   shared_install, effects, log_file>>

\* ------------------------------------------------- foreground loop (run)
ForegroundUnchanged == UNCHANGED <<shared_clone, clone_poisoned, clone_thread,
                                   shared_install, install_poisoned, install_thread,
                                   effects, log_file>>

\* top of the loop: copy the shared state of the current pipeline step, draw
LoopTop ==
    /\ main_pc = "loop_top"
    /\ app' = IF app.step = "CloningRepo" THEN SyncCloneState(app)
              ELSE IF app.step = "Installing" THEN SyncInstallState(app)
              ELSE app
    /\ main_pc' = "after_draw"
    /\ ForegroundUnchanged

\* `if app.should_quit { break; }`
Exit ==
    /\ main_pc = "after_draw"
    /\ app.should_quit
    /\ main_pc' = "exited"
    /\ UNCHANGED app
    /\ ForegroundUnchanged

\* Variant of CloneFinished without the error test.
CloneFinishedIgnoringError(a) == a.step = "CloningRepo" /\ a.clone_done

CloneFinished(a) ==
    a.step = "CloningRepo" /\ a.clone_done /\ a.clone_error = None

\* Variant of InstallFinished that takes a full progress counter for
\* completion.
InstallFinishedOnProgress(a) ==
    a.step = "Installing" /\ a.install_progress = a.install_total

InstallFinished(a) == a.step = "Installing" /\ a.install_done

AutoAdvanceClone ==
    /\ main_pc = "after_draw"
    /\ ~app.should_quit
    /\ CloneFinished(app)
    /\ \E warnings \in BOOLEAN, ps \in PresetScans,
          repo_pre \in HookLists, repo_post \in HookLists :
          app' = FinishClone(app, warnings, ps, repo_pre, repo_post)
    /\ main_pc' = "loop_top"
    /\ ForegroundUnchanged

AutoAdvanceInstall ==
    /\ main_pc = "after_draw"
    /\ ~app.should_quit
    /\ ~CloneFinished(app)
    /\ InstallFinished(app)
    /\ app' = [app EXCEPT !.step = "RootPassword"]
    /\ main_pc' = "loop_top"
    /\ ForegroundUnchanged

\* the loop has reached event::poll
Polling ==
    /\ main_pc = "after_draw"
    /\ ~app.should_quit
    /\ ~CloneFinished(app)
    /\ ~InstallFinished(app)

\* no key within the interval, or a key the current step ignores
PollTimeout ==
    /\ Polling
    /\ main_pc' = "loop_top"
    /\ UNCHANGED app
    /\ ForegroundUnchanged

\* a panic on the foreground thread: run is unwound and the program ends
MainPanic ==
    /\ main_pc' = "panicked"
    /\ UNCHANGED app
    /\ ForegroundUnchanged

\* a key press changes the App to b and the loop continues
Key(b) ==
    /\ app' = b
    /\ main_pc' = "loop_top"
    /\ ForegroundUnchanged

\* a key press whose handler runs the external command op for account i
KeyCommand(b, op, i, ok) ==
    /\ app' = b
    /\ main_pc' = "loop_top"
    /\ effects' = Append(effects, [op |-> op, i |-> i, ok |-> ok])
    /\ log_file' = log_file \o [j \in 1..(Len(b.install_log) - Len(app.install_log)) |->
                                  FileLine(b.install_log[Len(app.install_log) + j])]
    /\ UNCHANGED <<shared_clone, clone_poisoned, clone_thread, shared_install,
                   install_poisoned, install_thread>>

PasswordCommands == {"set_root_password", "set_user_password_in_target"}

\* the password commands that have failed so far
PasswordFailures ==
    Cardinality({j \in 1..Len(effects) :
                    effects[j].op \in PasswordCommands /\ ~effects[j].ok})

KeyCtrlC ==
    /\ Polling
    /\ Key([app EXCEPT !.should_quit = TRUE])

KeyClearStatus ==
    /\ Polling
    /\ app.status_message # None
    /\ Key([app EXCEPT !.status_message = None])

\* a key press that reaches the Esc / q / per-step handlers
Dispatch(step) == Polling /\ app.status_message = None /\ app.step = step

\* Variant of KeyEsc that leaves the App alone when go_back refuses.
KeyEscIgnoringRefusal ==
    /\ Polling
    /\ app.status_message = None
    /\ app.step \notin {"Installing", "Complete", "CloningRepo"}
    /\ Key(GoBack(app)[2])

KeyEsc ==
    /\ Polling
    /\ app.status_message = None
    /\ app.step \notin {"Installing", "Complete", "CloningRepo"}
    /\ Key(IF GoBack(app)[1] THEN GoBack(app)[2]
           ELSE [app EXCEPT !.should_quit = TRUE])

KeyQ ==
    /\ Polling
    /\ app.status_message = None
    /\ app.step \in {"SelectPreset", "SelectDisk", "SelectNixosModules",
                     "SelectHmModules", "SelectSystemPackages", "SelectUserPackages"}
    /\ Key([app EXCEPT !.should_quit = TRUE])

\* Backspace and character keys on the text field f of the App
EditText(f, chars, max) ==
    \/ /\ app[f] # <<>>
       /\ Key([app EXCEPT ![f] = SubSeq(@, 1, Len(@) - 1)])
    \/ /\ Len(app[f]) < max
       /\ \E c \in chars : Key([app EXCEPT ![f] = Append(@, c)])

KeyCloningRepo ==
    /\ Dispatch("CloningRepo")
    /\ app.clone_error # None
    /\ Key([app EXCEPT !.should_quit = TRUE])

KeySelectPreset ==
    /\ Dispatch("SelectPreset")
    /\ \/ Key([app EXCEPT !.preset_cursor = ListPrev(Len(app.presets) + 1, @)])
       \/ Key([app EXCEPT !.preset_cursor = ListNext(Len(app.presets) + 1, @)])
       \/ Key(ConfirmPresetSelection(app))

KeyHostName ==
    /\ Dispatch("HostName")
    /\ \/ Key(ConfirmHostName(app))
       \/ EditText("host_name_input", HostChars, MaxInput)

KeySelectNixosModules ==
    /\ Dispatch("SelectNixosModules")
    /\ Key(ConfirmNixosModules(app))

KeySelectSystemPackages ==
    /\ Dispatch("SelectSystemPackages")
    /\ Key(ConfirmSystemPackages(app))

KeyCreateUser ==
    /\ Dispatch("CreateUser")
    /\ \/ /\ Len(app.users) < MaxUsers
          /\ \E config_exists \in BOOLEAN : Key(ConfirmUsername(app, config_exists))
       \/ EditText("current_username", UserChars, MaxInput)

DiskListings == {[ok |-> TRUE, disks |-> d] : d \in DiskScans}
                \cup {[ok |-> FALSE, disks |-> <<>>]}

KeyAddAnotherUser ==
    /\ Dispatch("AddAnotherUser")
    /\ \/ Key([app EXCEPT !.another_user_cursor = 0])
       \/ Key([app EXCEPT !.another_user_cursor = 1])
       \/ \E listing \in DiskListings : Key(ConfirmAnotherUser(app, listing))

KeySelectHmModules ==
    /\ Dispatch("SelectHmModules")
    /\ Key(ConfirmHmModules(app))

KeySelectUserPackages ==
    /\ Dispatch("SelectUserPackages")
    /\ \E listing \in DiskListings : Key(ConfirmUserPackages(app, listing))

KeySelectDisk ==
    /\ Dispatch("SelectDisk")
    /\ \/ Key([app EXCEPT !.disk_cursor = ListPrev(Len(app.disks), @)])
       \/ Key([app EXCEPT !.disk_cursor = ListNext(Len(app.disks), @)])
       \/ Key(ConfirmDisk(app))

KeyPartitionModeSelect ==
    /\ Dispatch("PartitionModeSelect")
    /\ \/ Key([app EXCEPT !.partition_mode_cursor = ListPrev(2, @)])
       \/ Key([app EXCEPT !.partition_mode_cursor = ListNext(2, @)])
       \/ Key(ConfirmPartitionMode(app))

KeySwapSize ==
    /\ Dispatch("SwapSize")
    /\ \/ Key(ConfirmSwapSize(app))
       \/ SwapSizeOverflows(app) /\ MainPanic
       \/ EditText("swap_size_input", SwapChars, MaxInput)

KeyCustomPartitionMount ==
    /\ Dispatch("CustomPartitionMount")
    /\ \/ Key(ConfirmCustomMount(app))
       \/ EditText("part_mount_input", MountChars, MaxMount)

KeyCustomPartitionSize ==
    /\ Dispatch("CustomPartitionSize")
    /\ \/ Key(ConfirmCustomSize(app))
       \/ EditText("part_size_input", SizeChars, MaxInput)

KeyCustomPartitionFs ==
    /\ Dispatch("CustomPartitionFs")
    /\ \/ Key([app EXCEPT !.part_fs_cursor = ListPrev(Len(FsTypeAll), @)])
       \/ Key([app EXCEPT !.part_fs_cursor = ListNext(Len(FsTypeAll), @)])
       \/ /\ Len(app.partitions) < MaxParts
          /\ \/ Key(ConfirmCustomFs(app))
             \/ CustomSizeOverflows(app) /\ MainPanic

KeyCustomPartitionAnother ==
    /\ Dispatch("CustomPartitionAnother")
    /\ \/ Key([app EXCEPT !.another_partition_cursor = 0])
       \/ Key([app EXCEPT !.another_partition_cursor = 1])
       \/ Key(ConfirmCustomAnother(app))

\* confirm_install and, when it accepts, start_installation
ConfirmInstall ==
    /\ Dispatch("Confirm")
    /\ main_pc' = "loop_top"
    /\ UNCHANGED <<shared_clone, clone_poisoned, clone_thread, install_poisoned,
                   effects, log_file>>
    /\ IF app.confirm_cursor # 0
       THEN /\ app' = [app EXCEPT !.step = "PartitionModeSelect"]
            /\ UNCHANGED <<shared_install, install_thread>>
       ELSE IF ~HasRootPartition(app)
       THEN /\ app' = [app EXCEPT !.status_message = "No root (/) partition defined"]
            /\ UNCHANGED <<shared_install, install_thread>>
       ELSE /\ app' = [app EXCEPT !.step = "Installing"]
            /\ IF app.selected_disk = None
               THEN /\ shared_install' =
                         [NewInstallState(app) EXCEPT
                            !.error = "No disk selected",
                            !.log = <<Line("error", "No disk selected", 1)>>]
                    /\ UNCHANGED install_thread
               ELSE /\ shared_install' = NewInstallState(app)
                    /\ install_thread' = SpawnedThread(app)

KeyConfirm ==
    \/ /\ Dispatch("Confirm")
       /\ \/ Key([app EXCEPT !.confirm_cursor = 0])
          \/ Key([app EXCEPT !.confirm_cursor = 1])
    \/ ConfirmInstall

\* Variant of KeyInstalling whose Enter after a failed installation returns
\* to Confirm for another attempt instead of quitting.
KeyInstallingRetrying ==
    /\ Dispatch("Installing")
    /\ app.install_done \/ app.install_error # None
    /\ Key(IF app.install_done THEN [app EXCEPT !.step = "RootPassword"]
           ELSE [app EXCEPT !.step = "Confirm"])

KeyInstalling ==
    /\ Dispatch("Installing")
    /\ app.install_done \/ app.install_error # None
    /\ Key(IF app.install_done THEN [app EXCEPT !.step = "RootPassword"]
           ELSE [app EXCEPT !.should_quit = TRUE])

KeyRootPassword ==
    /\ Dispatch("RootPassword")
    /\ \/ Key(ConfirmRootPassword(app))
       \/ EditText("root_password", PasswordChars, MaxInput)

KeyRootPasswordConfirm ==
    /\ Dispatch("RootPasswordConfirm")
    /\ \/ /\ app.root_password # app.root_password_confirm
          /\ Key(ConfirmRootPasswordConfirm(app, TRUE))
       \/ /\ app.root_password = app.root_password_confirm
          /\ \E chpasswd_ok \in BOOLEAN :
                /\ chpasswd_ok \/ PasswordFailures < MaxRetries
                /\ KeyCommand(ConfirmRootPasswordConfirm(app, chpasswd_ok),
                              "set_root_password", 0, chpasswd_ok)
       \/ EditText("root_password_confirm", PasswordChars, MaxInput)

KeyUserPassword ==
    /\ Dispatch("UserPassword")
    /\ \/ Key(ConfirmUserPassword(app))
       \/ EditText("current_password", PasswordChars, MaxInput)

KeyUserPasswordConfirm ==
    /\ Dispatch("UserPasswordConfirm")
    /\ \/ /\ app.current_password # app.current_password_confirm
          /\ Key(ConfirmUserPasswordConfirm(app, TRUE))
       \/ /\ app.current_password = app.current_password_confirm
          /\ \E chpasswd_ok \in BOOLEAN :
                /\ chpasswd_ok \/ PasswordFailures < MaxRetries
                /\ KeyCommand(ConfirmUserPasswordConfirm(app, chpasswd_ok),
                              "set_user_password_in_target",
                              app.password_user_index + 1, chpasswd_ok)
       \/ EditText("current_password_confirm", PasswordChars, MaxInput)

KeyComplete ==
    /\ Dispatch("Complete")
    /\ \/ Key([app EXCEPT !.reboot_cursor = 0])
       \/ Key([app EXCEPT !.reboot_cursor = 1])
       \/ Key(ConfirmReboot(app))

CloneThread ==
    \/ CloneLogStart \/ CloneSetPhase \/ CloneSpawn \/ CloneRead \/ CloneLine
    \/ CloneFlush \/ CloneWait \/ CloneLogResult \/ CloneSetResult

InstallThread ==
    \/ Stage1Partition \/ Stage2FormatMount \/ Stage3GenerateHardwareConfig
    \/ Stage4WriteHardwareConfig \/ Stage5WriteHostConfig \/ Stage6WriteUserFiles
    \/ Stage7GitAdd \/ PreInstallHooks \/ RunNixosInstall \/ CopyRepoToTarget
    \/ PostInstallHooks \/ FinishInstall \/ LogError \/ Fail

Foreground ==
    \/ LoopTop \/ Exit \/ AutoAdvanceClone \/ AutoAdvanceInstall \/ PollTimeout
    \/ KeyCtrlC \/ KeyClearStatus \/ KeyEsc \/ KeyQ \/ KeyCloningRepo
    \/ KeySelectPreset \/ KeyHostName \/ KeySelectNixosModules
    \/ KeySelectSystemPackages \/ KeyCreateUser \/ KeyAddAnotherUser
    \/ KeySelectHmModules \/ KeySelectUserPackages \/ KeySelectDisk
    \/ KeyPartitionModeSelect \/ KeySwapSize \/ KeyCustomPartitionMount
    \/ KeyCustomPartitionSize \/ KeyCustomPartitionFs \/ KeyCustomPartitionAnother
    \/ KeyConfirm \/ KeyInstalling \/ KeyRootPassword \/ KeyRootPasswordConfirm
    \/ KeyUserPassword \/ KeyUserPasswordConfirm \/ KeyComplete

Next == Foreground \/ CloneThread \/ ClonePanic \/ InstallThread \/ InstallPanic

\* the whole program, from App::new
ProgramSpec == Init /\ [][Next]_vars

\* ------------------------------------------------------ the two pipelines
\* The App when the operator, starting at SelectPreset, has answered every
\* step once and created nusers users: the handlers above applied in order.
UserName(i) == [j \in 1..i |-> "a"]

RECURSIVE CreateUsers(_, _, _)
CreateUsers(a, i, nusers) ==
    IF i > nusers
    THEN ConfirmAnotherUser([a EXCEPT !.another_user_cursor = 1],
                            [ok |-> TRUE, disks |-> <<"sda">>])
    ELSE CreateUsers(
            LET b == ConfirmUsername([a EXCEPT !.current_username = UserName(i)], TRUE)
            IN IF i < nusers THEN ConfirmAnotherUser(b, [ok |-> TRUE, disks |-> <<>>])
               ELSE b,
            i + 1, nusers)

AnsweredWizard(custom, nusers, pre, post) ==
    LET a0 == NewApp("SelectPreset", IF custom THEN <<>> ELSE << <<"p">> >>,
                     None, pre, post)
        a1 == IF custom
              THEN ConfirmSystemPackages(ConfirmNixosModules(ConfirmHostName(
                     [ConfirmPresetSelection(a0) EXCEPT !.host_name_input = <<"h">>])))
              ELSE ConfirmPresetSelection(a0)
        a2 == CreateUsers(a1, 1, nusers)
        a3 == ConfirmSwapSize(ConfirmPartitionMode(ConfirmDisk(a2)))
    IN a3

\* the operator has answered every step and the wizard shows Confirm; the
\* repository was local, so there is no clone worker
ConfirmInit ==
    /\ main_pc = "loop_top"
    /\ \E custom \in BOOLEAN,
          pre \in InstallerHookLists, post \in InstallerHookLists :
          app = AnsweredWizard(custom, MaxUsers, pre, post)
    /\ app.step = "Confirm"
    /\ clone_thread = NoCloneThread
    /\ shared_clone = NewCloneState
    /\ clone_poisoned = FALSE
    /\ shared_install = NoInstallState
    /\ install_poisoned = FALSE
    /\ install_thread = NoThread
    /\ effects = <<>>
    /\ log_file = NoLogFile

\* the state in which confirm_install leaves those answers: the wizard at
\* Installing, the shared install state created, the worker spawned
InstallInit ==
    /\ main_pc = "loop_top"
    /\ \E custom \in BOOLEAN,
          pre \in InstallerHookLists, post \in InstallerHookLists :
          LET a == AnsweredWizard(custom, MaxUsers, pre, post) IN
             /\ a.step = "Confirm" /\ HasRootPartition(a) /\ a.selected_disk # None
             /\ app = [a EXCEPT !.step = "Installing"]
             /\ shared_install = NewInstallState(a)
             /\ install_thread = SpawnedThread(a)
    /\ clone_thread = NoCloneThread
    /\ shared_clone = NewCloneState
    /\ clone_poisoned = FALSE
    /\ install_poisoned = FALSE
    /\ effects = <<>>
    /\ log_file \in {NoLogFile, StaleLogFile}

PipelineInit == CloneInit \/ ConfirmInit

\* the steps of the two pipelines, and Confirm, where the second one starts
PipelineStep == app.step \in {"CloningRepo", "Confirm", "Installing"}

\* the foreground loop on those steps, and the two workers
PipelineNext ==
    \/ PipelineStep /\ LoopTop
    \/ PipelineStep /\ Exit
    \/ PipelineStep /\ AutoAdvanceClone
    \/ PipelineStep /\ AutoAdvanceInstall
    \/ PipelineStep /\ PollTimeout
    \/ PipelineStep /\ KeyCtrlC
    \/ PipelineStep /\ KeyEsc
    \/ PipelineStep /\ KeyCloningRepo
    \/ PipelineStep /\ KeyConfirm
    \/ PipelineStep /\ KeyInstalling
    \/ PipelineStep /\ CloneLogStart
    \/ PipelineStep /\ CloneSetPhase
    \/ PipelineStep /\ CloneSpawn
    \/ PipelineStep /\ CloneRead
    \/ PipelineStep /\ CloneLine
    \/ PipelineStep /\ CloneFlush
    \/ PipelineStep /\ CloneWait
    \/ PipelineStep /\ CloneLogResult
    \/ PipelineStep /\ CloneSetResult
    \/ PipelineStep /\ ClonePanic
    \/ PipelineStep /\ Stage1Partition
    \/ PipelineStep /\ Stage2FormatMount
    \/ PipelineStep /\ Stage3GenerateHardwareConfig
    \/ PipelineStep /\ Stage4WriteHardwareConfig
    \/ PipelineStep /\ Stage5WriteHostConfig
    \/ PipelineStep /\ Stage6WriteUserFiles
    \/ PipelineStep /\ Stage7GitAdd
    \/ PipelineStep /\ PreInstallHooks
    \/ PipelineStep /\ RunNixosInstall
    \/ PipelineStep /\ CopyRepoToTarget
    \/ PipelineStep /\ PostInstallHooks
    \/ PipelineStep /\ FinishInstall
    \/ PipelineStep /\ LogError
    \/ PipelineStep /\ Fail
    \/ PipelineStep /\ InstallPanic

Spec == PipelineInit /\ [][PipelineNext]_vars

\* the install worker on its own, from the state start_installation leaves:
\* the foreground never writes the shared install state, so the worker's
\* runs are the same with the foreground loop left out
InstallNext == InstallThread \/ InstallPanic

InstallSpec == InstallInit /\ [][InstallNext]_vars

\* the clone worker alone, from the moment git has printed its first
\* complete line, whatever that line is
ProgressChars == {"2", "6", "%", "a"}

\* the sequences of n characters over chars
RECURSIVE Strings(_, _)
Strings(chars, n) ==
    IF n = 0 THEN {<<>>}
    ELSE {Append(l, c) : l \in Strings(chars, n - 1), c \in chars}

\* the lines of up to MaxLineLen characters, and the lines of CloneLines
ProgressLines ==
    CloneLines \cup UNION {Strings(ProgressChars, n) : n \in 1..MaxLineLen}

\* the first line does not count against MaxCloneLines
ParseInit ==
    /\ main_pc = "loop_top"
    /\ app = NewApp("CloningRepo", <<>>, None, <<>>, <<>>)
    /\ \E l \in ProgressLines :
          clone_thread = [NoCloneThread EXCEPT !.pc = "line", !.buf = l]
    /\ shared_clone = [NewCloneState EXCEPT !.log = <<Msg("Cloning...")>>,
                                            !.phase = Msg("Starting clone...")]
    /\ clone_poisoned = FALSE
    /\ shared_install = NoInstallState
    /\ install_poisoned = FALSE
    /\ install_thread = NoThread
    /\ effects = <<>>
    /\ log_file = NoLogFile

ParseNext ==
    \/ CloneRead \/ CloneLine \/ CloneFlush \/ CloneWait \/ CloneLogResult
    \/ CloneSetResult \/ ClonePanic

ParseSpec == ParseInit /\ [][ParseNext]_vars

\* ------------------------------------------------- the two size inputs
\* confirm_swap_size and confirm_custom_fs on whatever the operator has typed
\* into the size field: short inputs, and the numbers around the limits of
\* u64 (2^54 - 1, 2^54, 2^64 - 1, 2^64)
LargestExactGib == <<"1", "8", "0", "1", "4", "3", "9", "8", "5", "0", "9", "4", "8", "1", "9", "8", "3">>

SmallestWrappingGib == <<"1", "8", "0", "1", "4", "3", "9", "8", "5", "0", "9", "4", "8", "1", "9", "8", "4">>

LargestU64 == <<"1", "8", "4", "4", "6", "7", "4", "4", "0", "7", "3", "7", "0", "9", "5", "5", "1", "6", "1", "5">>

SmallestTooLarge == <<"1", "8", "4", "4", "6", "7", "4", "4", "0", "7", "3", "7", "0", "9", "5", "5", "1", "6", "1", "6">>

LimitNumbers == {LargestExactGib, SmallestWrappingGib, LargestU64, SmallestTooLarge}

\* Step::SwapSize takes digits only
SwapInputs ==
    LimitNumbers \cup UNION {Strings({"0", "4"}, n) : n \in 0..MaxDigits}

\* Step::CustomPartitionSize takes digits and '.'
SizeInputs ==
    LimitNumbers \cup UNION {Strings({"0", "1", "."}, n) : n \in 0..MaxDigits}

\* the App once a disk has been chosen, at PartitionModeSelect
DiskChosen ==
    ConfirmDisk(CreateUsers(
        ConfirmPresetSelection(NewApp("SelectPreset", << <<"p">> >>, None,
                                      <<>>, <<>>)), 1, 1))

\* the plan of an earlier pass through the partition steps, left in place
\* when the operator went back from Confirm
EarlierPlans ==
    { <<>>,
      <<Plan(PartitionLabel(<<"/", "b">>), <<"/", "b">>, <<U64(MibPerGib)>>,
             "Ext4")>> }

\* the operator is at SwapSize, or at CustomPartitionFs with a mount point
\* and a size typed
SizeInit ==
    /\ main_pc = "loop_top"
    /\ \E plan \in EarlierPlans :
          \/ \E input \in SwapInputs :
                app = [ConfirmPartitionMode(DiskChosen) EXCEPT
                          !.swap_size_input = input, !.partitions = plan]
          \/ \E input \in SizeInputs, mount \in {<<"/">>, <<"/", "b">>} :
                app = ConfirmCustomSize(ConfirmCustomMount(
                         [ConfirmPartitionMode(
                             [DiskChosen EXCEPT !.partition_mode_cursor = 1])
                            EXCEPT !.part_mount_input = mount,
                                   !.part_size_input = input,
                                   !.partitions = plan]))
    /\ clone_thread = NoCloneThread
    /\ shared_clone = NewCloneState
    /\ clone_poisoned = FALSE
    /\ shared_install = NoInstallState
    /\ install_poisoned = FALSE
    /\ install_thread = NoThread
    /\ effects = <<>>
    /\ log_file = NoLogFile

SizeStep == app.step \in {"SwapSize", "CustomPartitionFs"}

SizeNext ==
    \/ SizeStep /\ LoopTop
    \/ SizeStep /\ PollTimeout
    \/ SizeStep /\ KeyClearStatus
    \/ SizeStep /\ KeySwapSize
    \/ SizeStep /\ KeyCustomPartitionFs

SizeSpec == SizeInit /\ [][SizeNext]_vars

\* --------------------------------------- the user and partition steps
\* the foreground loop from CreateUser, entered by choosing the preset "p",
\* to the start of the installation: the operator creates users, chooses a
\* disk and a mode, types what the steps ask for, goes back, and confirms; the swap size stays the one the step offers,
\* and every custom partition keeps the empty size and the file system its
\* steps offer (SizeSpec covers the size inputs)
PlanInit ==
    /\ main_pc = "loop_top"
    /\ app = ConfirmPresetSelection(NewApp("SelectPreset", << <<"p">> >>, None,
                                           <<>>, <<>>))
    /\ clone_thread = NoCloneThread
    /\ shared_clone = NewCloneState
    /\ clone_poisoned = FALSE
    /\ shared_install = NoInstallState
    /\ install_poisoned = FALSE
    /\ install_thread = NoThread
    /\ effects = <<>>
    /\ log_file = NoLogFile

PlanStep ==
    app.step \in {"CreateUser", "AddAnotherUser", "SelectHmModules",
                  "SelectUserPackages",
                  "SelectDisk", "PartitionModeSelect", "SwapSize",
                  "CustomPartitionMount", "CustomPartitionSize",
                  "CustomPartitionFs", "CustomPartitionAnother", "Confirm"}

PlanNext ==
    \/ PlanStep /\ LoopTop
    \/ PlanStep /\ Exit
    \/ PlanStep /\ PollTimeout
    \/ PlanStep /\ KeyClearStatus
    \/ PlanStep /\ KeyEsc
    \/ PlanStep /\ KeyCreateUser
    \/ PlanStep /\ KeyAddAnotherUser
    \/ PlanStep /\ KeySelectHmModules
    \/ PlanStep /\ KeySelectUserPackages
    \/ PlanStep /\ KeySelectDisk
    \/ PlanStep /\ KeyPartitionModeSelect
    \/ PlanStep /\ KeySwapSize /\ app'.swap_size_input = app.swap_size_input
    \/ PlanStep /\ KeyCustomPartitionMount
    \/ PlanStep /\ KeyCustomPartitionSize /\ app'.part_size_input = app.part_size_input
    \/ PlanStep /\ KeyCustomPartitionFs /\ app'.part_fs_cursor = 0
    \/ PlanStep /\ KeyCustomPartitionAnother
    \/ PlanStep /\ KeyConfirm

PlanSpec == PlanInit /\ [][PlanNext]_vars

\* ================================================================ claims
\* ------------------------------------------- vocabulary of the claims
Command(op, i) == [op |-> op, i |-> i]

\* the commands a complete run of the install worker executes, in the order
\* the specification lists the stages, for the inputs the worker captured
ExpectedCommands ==
    LET th == install_thread IN
       << Command("partition_disk", 0), Command("format_and_mount", 0),
          Command("generate_hardware_config", 0),
          Command("write_hardware_config", 0) >>
       \o (IF th.is_custom THEN << Command("write_host_config", 0) >> ELSE << >>)
       \o [j \in 1..Len(th.users) |-> Command("write_user_config", j)]
       \o << Command("git_add_all", 0) >>
       \o [j \in 1..Len(th.pre_hooks) |-> Command("pre_install_hook", j)]
       \o << Command("nixos_install", 0), Command("copy_repo_to_target", 0) >>
       \o [j \in 1..Len(th.post_hooks) |-> Command("post_install_hook", j)]

\* the start message of the stage that runs command c
StartMessage(c) ==
    CASE c.op = "partition_disk" -> Line("start", "Partitioning", 0)
      [] c.op = "format_and_mount" ->
            Line("start", "Formatting and mounting partitions", 0)
      [] c.op = "generate_hardware_config" ->
            Line("start", "Generating hardware configuration", 0)
      [] c.op = "write_hardware_config" ->
            Line("start", "Writing hardware configuration", 0)
      [] c.op = "write_host_config" -> Line("start", "Writing host configuration", 0)
      [] c.op = "write_user_config" -> Line("start", "Writing user file", c.i)
      [] c.op = "git_add_all" ->
            Line("start", "Staging generated files (git add)", 0)
      [] c.op = "pre_install_hook" -> Line("start", "Running pre-install hook", c.i)
      [] c.op = "nixos_install" -> Line("start", "Running nixos-install", 0)
      [] c.op = "copy_repo_to_target" ->
            Line("start", "Copying repository to /mnt/etc/nixos/", 0)
      [] c.op = "post_install_hook" ->
            Line("start", "Running post-install hook", c.i)

CompletionMessage == Line("start", "Installation complete!", 0)

\* the start messages of a complete run, the completion line last
ExpectedStarts ==
    [j \in 1..Len(ExpectedCommands) |-> StartMessage(ExpectedCommands[j])]
    \o << CompletionMessage >>

IsStart(l) == l.k = "start"

StartLines(log) == SelectSeq(log, IsStart)

\* the commands that have completed so far, without their outcome
Commands == [j \in 1..Len(effects) |-> Command(effects[j].op, effects[j].i)]

InstallReturned == install_thread.pc = "returned"

\* ------------------------------------------------- the wizard's own steps
\* the foreground loop on every step but CloningRepo, from two states: the
\* wizard at SelectPreset with one preset and a local repository, and the
\* wizard at Installing while the worker of a run without hooks is about to
\* enter its last critical section, the one that sets done after every
\* command has succeeded or the one that stores the error after
\* partition_disk has failed.  The swap size, the size and the file system
\* of a custom partition stay as their steps offer them.
PresetInit ==
    /\ main_pc = "loop_top"
    /\ app = NewApp("SelectPreset", << <<"p">> >>, None, <<>>, <<>>)
    /\ clone_thread = NoCloneThread
    /\ shared_clone = NewCloneState
    /\ clone_poisoned = FALSE
    /\ shared_install = NoInstallState
    /\ install_poisoned = FALSE
    /\ install_thread = NoThread
    /\ effects = <<>>
    /\ log_file = NoLogFile

InstalledInit ==
    /\ main_pc = "loop_top"
    /\ \E nusers \in 1..MaxUsers, failed \in BOOLEAN :
          LET a == AnsweredWizard(FALSE, nusers, <<>>, <<>>) IN
             /\ app = [a EXCEPT !.step = "Installing"]
             /\ install_thread =
                   IF failed
                   THEN [SpawnedThread(a) EXCEPT !.pc = "fail",
                                                 !.err = "Partitioning failed",
                                                 !.err_lines = 1]
                   ELSE [SpawnedThread(a) EXCEPT !.pc = "fin_done",
                                                 !.step_counter = BaseStages]
             /\ shared_install =
                   IF failed
                   THEN [NewInstallState(a) EXCEPT
                            !.log = << Line("start", "Partitioning", 0),
                                       Line("error", "Partitioning failed", 1) >>,
                            !.progress = 1]
                   ELSE [NewInstallState(a) EXCEPT !.log = ExpectedStarts,
                                                   !.progress = BaseStages]
             /\ effects =
                   IF failed
                   THEN << [op |-> "partition_disk", i |-> 0, ok |-> FALSE] >>
                   ELSE [j \in 1..Len(ExpectedCommands) |->
                           [op |-> ExpectedCommands[j].op,
                            i |-> ExpectedCommands[j].i, ok |-> TRUE]]
    /\ log_file = TruncatedLogFile \o shared_install.log
    /\ clone_thread = NoCloneThread
    /\ shared_clone = NewCloneState
    /\ clone_poisoned = FALSE
    /\ install_poisoned = FALSE

WizardInit == PresetInit \/ InstalledInit

WizardStep == app.step # "CloningRepo"

WizardNext ==
    \/ WizardStep /\ LoopTop
    \/ WizardStep /\ Exit
    \/ WizardStep /\ AutoAdvanceInstall
    \/ WizardStep /\ PollTimeout
    \/ WizardStep /\ KeyCtrlC
    \/ WizardStep /\ KeyClearStatus
    \/ WizardStep /\ KeyEsc
    \/ WizardStep /\ KeyQ
    \/ WizardStep /\ KeySelectPreset
    \/ WizardStep /\ KeyHostName
    \/ WizardStep /\ KeySelectNixosModules
    \/ WizardStep /\ KeySelectSystemPackages
    \/ WizardStep /\ KeyCreateUser
    \/ WizardStep /\ KeyAddAnotherUser
    \/ WizardStep /\ KeySelectHmModules
    \/ WizardStep /\ KeySelectUserPackages
    \/ WizardStep /\ KeySelectDisk
    \/ WizardStep /\ KeyPartitionModeSelect
    \/ WizardStep /\ KeySwapSize /\ app'.swap_size_input = app.swap_size_input
    \/ WizardStep /\ KeyCustomPartitionMount
    \/ WizardStep /\ KeyCustomPartitionSize /\ app'.part_size_input = app.part_size_input
    \/ WizardStep /\ KeyCustomPartitionFs /\ app'.part_fs_cursor = 0
    \/ WizardStep /\ KeyCustomPartitionAnother
    \/ WizardStep /\ KeyConfirm
    \/ WizardStep /\ KeyInstalling
    \/ WizardStep /\ KeyRootPassword
    \/ WizardStep /\ KeyRootPasswordConfirm
    \/ WizardStep /\ KeyUserPassword
    \/ WizardStep /\ KeyUserPasswordConfirm
    \/ WizardStep /\ KeyComplete
    \/ WizardStep /\ FinishInstall
    \/ WizardStep /\ Fail

WizardSpec == WizardInit /\ [][WizardNext]_vars

\* ------------------------------------------------------- the text inputs
\* Enter on the steps that validate a text: the operator is at HostName, at
\* CreateUser (with no user yet, or with the user "a" accepted and 'add
\* another' answered) or at CustomPartitionMount with any text of up to
\* MaxTextLen characters in the input, or the installation is about to end
\* and the password steps follow.
InputChars == {"a", "A", "1", "_", "-", " ", "/"}

InputTexts == UNION {Strings(InputChars, n) : n \in 0..MaxTextLen}

AtHostName == ConfirmPresetSelection(NewApp("SelectPreset", <<>>, None, <<>>, <<>>))

AtCreateUser ==
    ConfirmPresetSelection(NewApp("SelectPreset", << <<"p">> >>, None, <<>>, <<>>))

AtNextUser ==
    ConfirmAnotherUser(
        ConfirmUsername([AtCreateUser EXCEPT !.current_username = <<"a">>], TRUE),
        [ok |-> TRUE, disks |-> <<>>])

AtCustomPartitionMount ==
    ConfirmPartitionMode([DiskChosen EXCEPT !.partition_mode_cursor = 1])

TextInit ==
    /\ main_pc = "loop_top"
    /\ \E text \in InputTexts :
          \/ app = [AtHostName EXCEPT !.host_name_input = text]
          \/ app = [AtCreateUser EXCEPT !.current_username = text]
          \/ app = [AtNextUser EXCEPT !.current_username = text]
          \/ app = [AtCustomPartitionMount EXCEPT !.part_mount_input = text]
    /\ clone_thread = NoCloneThread
    /\ shared_clone = NewCloneState
    /\ clone_poisoned = FALSE
    /\ shared_install = NoInstallState
    /\ install_poisoned = FALSE
    /\ install_thread = NoThread
    /\ effects = <<>>
    /\ log_file = NoLogFile

InputInit == TextInit \/ InstalledInit

InputStep ==
    app.step \in {"HostName", "CreateUser", "CustomPartitionMount", "Installing",
                  "RootPassword", "RootPasswordConfirm", "UserPassword",
                  "UserPasswordConfirm"}

InputNext ==
    \/ InputStep /\ LoopTop
    \/ InputStep /\ Exit
    \/ InputStep /\ AutoAdvanceInstall
    \/ InputStep /\ PollTimeout
    \/ InputStep /\ KeyClearStatus
    \/ InputStep /\ KeyHostName
    \/ InputStep /\ KeyCreateUser
    \/ InputStep /\ KeyCustomPartitionMount
    \/ InputStep /\ KeyInstalling
    \/ InputStep /\ KeyRootPassword
    \/ InputStep /\ KeyRootPasswordConfirm
    \/ InputStep /\ KeyUserPassword
    \/ InputStep /\ KeyUserPasswordConfirm
    \/ InputStep /\ FinishInstall
    \/ InputStep /\ Fail

InputSpec == InputInit /\ [][InputNext]_vars

\* ------------------------------------------------- the walk over users
\* the steps between the last user and SelectDisk: users named "a", "aa",
\* .. have been accepted, each with or without a configuration file in the
\* repository, and the wizard asks whether to add another
FlagLists == UNION {[1..n -> BOOLEAN] : n \in 1..MaxUsers}

RECURSIVE CreateFlaggedUsers(_, _, _)
CreateFlaggedUsers(a, i, flags) ==
    LET b == ConfirmUsername([a EXCEPT !.current_username = UserName(i)], ~flags[i])
    IN IF i = Len(flags) THEN b
       ELSE CreateFlaggedUsers(ConfirmAnotherUser(b, [ok |-> TRUE, disks |-> <<>>]),
                               i + 1, flags)

RouteInit ==
    /\ main_pc = "loop_top"
    /\ \E flags \in FlagLists : app = CreateFlaggedUsers(AtCreateUser, 1, flags)
    /\ clone_thread = NoCloneThread
    /\ shared_clone = NewCloneState
    /\ clone_poisoned = FALSE
    /\ shared_install = NoInstallState
    /\ install_poisoned = FALSE
    /\ install_thread = NoThread
    /\ effects = <<>>
    /\ log_file = NoLogFile

RouteStep ==
    app.step \in {"AddAnotherUser", "SelectHmModules", "SelectUserPackages"}

RouteNext ==
    \/ RouteStep /\ LoopTop
    \/ RouteStep /\ Exit
    \/ RouteStep /\ PollTimeout
    \/ RouteStep /\ KeyEsc
    \/ RouteStep /\ KeyQ
    \/ RouteStep /\ KeyAddAnotherUser
    \/ RouteStep /\ KeySelectHmModules
    \/ RouteStep /\ KeySelectUserPackages

RouteSpec == RouteInit /\ [][RouteNext]_vars

\* -------------------------------------------------- format_and_mount
\* disk::format_and_mount command by command, for the plans the wizard can
\* hand to the worker.  A command is recorded in effects with the number of
\* the partition it acts on (the suffix of its device path) and, for mkdir
\* and mount, its target.
MountRoot == <<"/", "m", "n", "t">>

DiskCommand(op, n, target) == [op |-> op, i |-> n, target |-> target]

\* Variant of FirstPassCommands that leaves the root partition to the
\* second pass.
FirstPassFormatOnly(part, n) ==
    CASE part.fs_type = "Fat32" -> << DiskCommand("mkfs.fat", n, <<>>) >>
      [] part.fs_type = "Ext4" -> << DiskCommand("mkfs.ext4", n, <<>>) >>
      [] part.fs_type = "Btrfs" -> << DiskCommand("mkfs.btrfs", n, <<>>) >>
      [] part.fs_type = "Swap" ->
            << DiskCommand("mkswap", n, <<>>), DiskCommand("swapon", n, <<>>) >>

\* the first loop's body for the n-th partition
FirstPassCommands(part, n) ==
    IF part.fs_type = "Swap"
    THEN << DiskCommand("mkswap", n, <<>>), DiskCommand("swapon", n, <<>>) >>
    ELSE << DiskCommand(CASE part.fs_type = "Fat32" -> "mkfs.fat"
                          [] part.fs_type = "Ext4" -> "mkfs.ext4"
                          [] part.fs_type = "Btrfs" -> "mkfs.btrfs", n, <<>>) >>
         \o (IF part.mount_point = <<"/">>
             THEN << DiskCommand("mount", n, MountRoot) >>
             ELSE << >>)

\* Variant of SecondPassCommands that skips nothing but swap.
SecondPassMountingRoot(part, n) ==
    IF part.fs_type = "Swap" THEN << >>
    ELSE << DiskCommand("mkdir", n, MountRoot \o part.mount_point),
            DiskCommand("mount", n, MountRoot \o part.mount_point) >>

\* the second loop's body for the n-th partition
SecondPassCommands(part, n) ==
    IF part.fs_type = "Swap" \/ part.mount_point = <<"/">> THEN << >>
    ELSE << DiskCommand("mkdir", n, MountRoot \o part.mount_point),
            DiskCommand("mount", n, MountRoot \o part.mount_point) >>

\* run_cmd(..)? on each command of cmds: the first ok of them succeed, the
\* next one, if there is one, fails and format_and_mount returns its error
RunCommands(pc, cmds, after) ==
    /\ install_thread.pc = pc
    /\ \E ok \in 0..Len(cmds) :
          /\ effects' = effects \o
                [j \in 1..(IF ok < Len(cmds) THEN ok + 1 ELSE ok) |->
                    [op |-> cmds[j].op, i |-> cmds[j].i,
                     target |-> cmds[j].target, ok |-> j <= ok]]
          /\ IF ok = Len(cmds)
             THEN install_thread' = after
             ELSE \E n \in 1..MaxErrLines :
                     install_thread' = Failed("Format/mount failed", n)
    /\ UNCHANGED shared_install
    /\ InstallVarsUnchanged

FormatPartition ==
    /\ install_thread.idx < Len(app.partitions)
    /\ RunCommands("fm_format",
                   FirstPassCommands(app.partitions[install_thread.idx + 1],
                                     install_thread.idx + 1),
                   [install_thread EXCEPT !.idx = @ + 1])

SecondPass ==
    /\ install_thread.idx = Len(app.partitions)
    /\ RunCommands("fm_format", << >>,
                   [install_thread EXCEPT !.pc = "fm_mount", !.idx = 0])

MountPartition ==
    /\ install_thread.idx < Len(app.partitions)
    /\ RunCommands("fm_mount",
                   SecondPassCommands(app.partitions[install_thread.idx + 1],
                                      install_thread.idx + 1),
                   [install_thread EXCEPT !.idx = @ + 1])

FormatAndMountOk ==
    /\ install_thread.idx = Len(app.partitions)
    /\ RunCommands("fm_mount", << >>,
                   [install_thread EXCEPT !.pc = "s3_log", !.idx = 0])

\* the plans of full-disk mode without and with swap, and the custom plans
\* of up to MaxParts partitions that Confirm accepts; the sizes play no part
\* in format_and_mount
PlanMounts == {<<"/">>, <<"s", "w", "a", "p">>, <<"/", "h">>}

FullDiskPlans ==
    {ConfirmSwapSize([DiskChosen EXCEPT !.swap_size_input = input]).partitions :
        input \in {<<"0">>, <<"4">>}}

CustomEntries ==
    {Plan(PartitionLabel(mount), mount, <<>>, FsTypeAll[f]) :
        mount \in PlanMounts, f \in 1..Len(FsTypeAll)}

CustomPlans ==
    UNION {[1..n -> CustomEntries] : n \in 1..MaxParts}

\* the worker has partitioned the disk and is about to call
\* format_and_mount
MountInit ==
    /\ main_pc = "loop_top"
    /\ \E custom \in BOOLEAN :
       \E plan \in (IF custom THEN CustomPlans ELSE FullDiskPlans) :
          LET a == [AnsweredWizard(FALSE, 1, <<>>, <<>>) EXCEPT
                       !.partition_mode = IF custom THEN "Custom" ELSE @,
                       !.partitions = plan]
          IN /\ HasRootPartition(a)
             /\ app = [a EXCEPT !.step = "Installing"]
             /\ shared_install =
                   [NewInstallState(a) EXCEPT
                       !.log = << Line("start", "Partitioning", 0),
                                  Line("start", "Formatting and mounting partitions", 0) >>,
                       !.progress = 2]
             /\ install_thread = [SpawnedThread(a) EXCEPT !.pc = "fm_format"]
    /\ clone_thread = NoCloneThread
    /\ shared_clone = NewCloneState
    /\ clone_poisoned = FALSE
    /\ install_poisoned = FALSE
    /\ effects = << [op |-> "partition_disk", i |-> 0, ok |-> TRUE] >>
    /\ log_file = TruncatedLogFile \o shared_install.log

MountNext == FormatPartition \/ SecondPass \/ MountPartition \/ FormatAndMountOk

MountSpec == MountInit /\ [][MountNext]_vars

\* ------------------------------------------------- the accounts of a run
\* the foreground loop from CreateUser to the start of the installation,
\* with the host steps that back() from CreateUser returns to: the operator
\* has chosen the preset "p" and has typed nothing or a first name, creates
\* users, goes back, chooses a host again, and installs on the whole disk.
\* The repository holds the user configuration files UserConfigs, which is
\* what nix::user_config_exists answers from.
UserConfigs == { << <<"p">>, <<"a">> >>, << <<"p">>, <<"a", "a">> >> }

UserConfigExists(host_name, username) == <<host_name, username>> \in UserConfigs

FirstNames == { <<>>, <<"a", "a">> }

AccountInit ==
    /\ main_pc = "loop_top"
    /\ \E text \in FirstNames : app = [AtCreateUser EXCEPT !.current_username = text]
    /\ clone_thread = NoCloneThread
    /\ shared_clone = NewCloneState
    /\ clone_poisoned = FALSE
    /\ shared_install = NoInstallState
    /\ install_poisoned = FALSE
    /\ install_thread = NoThread
    /\ effects = <<>>
    /\ log_file = NoLogFile

AccountStep ==
    app.step \in {"SelectPreset", "HostName", "SelectNixosModules",
                  "SelectSystemPackages", "CreateUser", "AddAnotherUser",
                  "SelectHmModules", "SelectUserPackages", "SelectDisk",
                  "PartitionModeSelect", "SwapSize", "Confirm"}

\* confirm_username asks the repository about the name it appends
AnsweredFromRepository ==
    Len(app'.users) > Len(app.users) =>
        Last(app'.users).needs_hm_selection =
            ~UserConfigExists(app.host_name, Last(app'.users).username)

AccountNext ==
    \/ AccountStep /\ LoopTop
    \/ AccountStep /\ Exit
    \/ AccountStep /\ PollTimeout
    \/ AccountStep /\ KeyClearStatus
    \/ AccountStep /\ KeyEsc
    \/ AccountStep /\ KeyQ
    \/ AccountStep /\ KeySelectPreset
    \/ AccountStep /\ KeyHostName
    \/ AccountStep /\ KeySelectNixosModules
    \/ AccountStep /\ KeySelectSystemPackages
    \/ AccountStep /\ KeyCreateUser /\ AnsweredFromRepository
    \/ AccountStep /\ KeyAddAnotherUser
    \/ AccountStep /\ KeySelectHmModules
    \/ AccountStep /\ KeySelectUserPackages
    \/ AccountStep /\ KeySelectDisk
    \/ AccountStep /\ KeyPartitionModeSelect /\ app'.partition_mode_cursor = 0
    \/ AccountStep /\ KeySwapSize /\ app'.swap_size_input = app.swap_size_input
    \/ AccountStep /\ KeyConfirm

AccountSpec == AccountInit /\ [][AccountNext]_vars

\* --------------------------------------------- the custom partition steps
\* the four steps that append one entry to a custom plan, from
\* CustomPartitionMount with a mount point typed: the root, the EFI and the
\* swap mount points, paths of one and of several components, paths with
\* doubled, trailing and surrounding characters, and texts that are refused
\* (the size and the file system stay as the steps offer them)
TypedMounts ==
    { <<"/">>, <<"/", "b", "o", "o", "t">>, <<"s", "w", "a", "p">>,
      <<"/", "h">>, <<"/", "a", "/", "b">>, <<"/", "/", "a">>, <<"/", "a", "/">>,
      <<"/", "/">>, <<" ", "/", "h", " ">>, <<"/", "b", "o", "o", "t", "/">>,
      <<"h">>, <<>> }

LabelInit ==
    /\ main_pc = "loop_top"
    /\ \E text \in TypedMounts :
          app = [AtCustomPartitionMount EXCEPT !.part_mount_input = text]
    /\ clone_thread = NoCloneThread
    /\ shared_clone = NewCloneState
    /\ clone_poisoned = FALSE
    /\ shared_install = NoInstallState
    /\ install_poisoned = FALSE
    /\ install_thread = NoThread
    /\ effects = <<>>
    /\ log_file = NoLogFile

LabelStep ==
    app.step \in {"CustomPartitionMount", "CustomPartitionSize",
                  "CustomPartitionFs", "CustomPartitionAnother"}

LabelNext ==
    \/ LabelStep /\ LoopTop
    \/ LabelStep /\ PollTimeout
    \/ LabelStep /\ KeyClearStatus
    \/ LabelStep /\ KeyEsc
    \/ LabelStep /\ KeyCustomPartitionMount
    \/ LabelStep /\ KeyCustomPartitionSize /\ app'.part_size_input = app.part_size_input
    \/ LabelStep /\ KeyCustomPartitionFs /\ app'.part_fs_cursor = 0
    \/ LabelStep /\ KeyCustomPartitionAnother

LabelSpec == LabelInit /\ [][LabelNext]_vars

\* ------------------------------------------------- a run left to finish
\* the install worker and the foreground loop on Installing, from the state
\* start_installation leaves.  The worker's thread is scheduled and every
\* command it runs returns, so the worker takes its next step whenever it has
\* one; the loop's poll returns after its interval, so the loop takes its
\* next step whenever it has one.  The operator presses Enter or no key.
LiveStep == app.step = "Installing"

LiveWorker ==
    \/ LiveStep /\ Stage1Partition
    \/ LiveStep /\ Stage2FormatMount
    \/ LiveStep /\ Stage3GenerateHardwareConfig
    \/ LiveStep /\ Stage4WriteHardwareConfig
    \/ LiveStep /\ Stage5WriteHostConfig
    \/ LiveStep /\ Stage6WriteUserFiles
    \/ LiveStep /\ Stage7GitAdd
    \/ LiveStep /\ PreInstallHooks
    \/ LiveStep /\ RunNixosInstall
    \/ LiveStep /\ CopyRepoToTarget
    \/ LiveStep /\ PostInstallHooks
    \/ LiveStep /\ FinishInstall
    \/ LiveStep /\ LogError
    \/ LiveStep /\ Fail

LiveLoop ==
    \/ LiveStep /\ LoopTop
    \/ LiveStep /\ Exit
    \/ LiveStep /\ AutoAdvanceInstall
    \/ LiveStep /\ PollTimeout

LiveNext == LiveWorker \/ LiveLoop \/ KeyInstalling

\* no earlier run has left a log file; the installer configures no hooks, or
\* MaxHooks of each kind
LiveInit ==
    /\ InstallInit
    /\ log_file = NoLogFile
    /\ Len(app.pre_install_hooks) = Len(app.post_install_hooks)

LiveSpec ==
    LiveInit /\ [][LiveNext]_vars /\ WF_vars(LiveWorker) /\ WF_vars(LiveLoop)

\* ------------------------------------------------- the two per-user walks
\* the wizard from CreateUser to Confirm as in AccountSpec, where the module
\* steps walk over the users, and from the end of a finished installation
\* as in InstalledInit, where the password steps walk over them
WalkInit == AccountInit \/ InstalledInit

PasswordStep ==
    app.step \in {"Installing", "RootPassword", "RootPasswordConfirm",
                  "UserPassword", "UserPasswordConfirm", "Complete"}

WalkNext ==
    \/ AccountNext
    \/ PasswordStep /\ LoopTop
    \/ PasswordStep /\ Exit
    \/ PasswordStep /\ AutoAdvanceInstall
    \/ PasswordStep /\ PollTimeout
    \/ PasswordStep /\ KeyCtrlC
    \/ PasswordStep /\ KeyClearStatus
    \/ PasswordStep /\ KeyEsc
    \/ PasswordStep /\ KeyInstalling
    \/ PasswordStep /\ KeyRootPassword
    \/ PasswordStep /\ KeyRootPasswordConfirm
    \/ PasswordStep /\ KeyUserPassword
    \/ PasswordStep /\ KeyUserPasswordConfirm
    \/ PasswordStep /\ KeyComplete
    \/ PasswordStep /\ FinishInstall
    \/ PasswordStep /\ Fail

WalkSpec == WalkInit /\ [][WalkNext]_vars

\* ------------------------------------------------- one program run's install
\* the program from Confirm to its end: the foreground loop on Confirm, on
\* Installing and on the steps after it, and the install worker, for the
\* answers of a preset or custom installation with one user and no hooks
\* (the two hook loops of the worker then have nothing to run)
RunInit ==
    /\ main_pc = "loop_top"
    /\ \E custom \in BOOLEAN : app = AnsweredWizard(custom, 1, <<>>, <<>>)
    /\ app.step = "Confirm"
    /\ clone_thread = NoCloneThread
    /\ shared_clone = NewCloneState
    /\ clone_poisoned = FALSE
    /\ shared_install = NoInstallState
    /\ install_poisoned = FALSE
    /\ install_thread = NoThread
    /\ effects = <<>>
    /\ log_file = NoLogFile

RunStep ==
    app.step \in {"Confirm", "Installing", "RootPassword", "RootPasswordConfirm",
                  "UserPassword", "UserPasswordConfirm", "Complete"}

RunForeground ==
    \/ RunStep /\ LoopTop
    \/ RunStep /\ Exit
    \/ RunStep /\ AutoAdvanceInstall
    \/ RunStep /\ PollTimeout
    \/ RunStep /\ KeyCtrlC
    \/ RunStep /\ KeyClearStatus
    \/ RunStep /\ KeyEsc
    \/ RunStep /\ KeyConfirm
    \/ RunStep /\ KeyInstalling
    \/ RunStep /\ KeyRootPassword
    \/ RunStep /\ KeyRootPasswordConfirm
    \/ RunStep /\ KeyUserPassword
    \/ RunStep /\ KeyUserPasswordConfirm
    \/ RunStep /\ KeyComplete

RunWorker ==
    \/ RunStep /\ Stage1Partition
    \/ RunStep /\ Stage2FormatMount
    \/ RunStep /\ Stage3GenerateHardwareConfig
    \/ RunStep /\ Stage4WriteHardwareConfig
    \/ RunStep /\ Stage5WriteHostConfig
    \/ RunStep /\ Stage6WriteUserFiles
    \/ RunStep /\ Stage7GitAdd
    \/ RunStep /\ RunNixosInstall
    \/ RunStep /\ CopyRepoToTarget
    \/ RunStep /\ FinishInstall
    \/ RunStep /\ LogError
    \/ RunStep /\ Fail
    \/ RunStep /\ InstallPanic

RunNext == RunForeground \/ RunWorker

RunSpec == RunInit /\ [][RunNext]_vars

\* ------------------------------------------------------------------ C1
\* C1: the install pipeline aborts on the first failure.  Whichever command
\* fails, it is the last command the worker runs, the start messages in the
\* log are those of the commands run up to and including it (no later stage
\* logs a start message), done is not set, the worker does nothing but log
\* and store the error, and once it has returned the error is in the shared
\* state.
C1_AbortOnFirstFailure ==
    \A j \in 1..Len(effects) :
       ~effects[j].ok =>
          /\ j = Len(effects)
          /\ StartLines(shared_install.log) =
                [k \in 1..j |-> StartMessage(Commands[k])]
          /\ ~shared_install.done
          /\ install_thread.pc \in {"log_error", "fail", "returned", "panicked"}
          /\ InstallReturned => shared_install.error = install_thread.err
          /\ InstallReturned => shared_install.error # None

\* a run whose install command failed, after the worker has returned
C1_Witness ==
    /\ InstallReturned
    /\ effects # << >>
    /\ Last(effects).op = "nixos_install"
    /\ ~Last(effects).ok
    /\ shared_install.error # None

\* ------------------------------------------------------------------ C2
\* C2: when stage k of the four leading stages (partition, format/mount,
\* generate the hardware configuration, write it) fails, the shared state
\* ends with progress = k, the error set, done false, and a log whose start
\* messages are those of stages 1..k and no others.
LeadingStages ==
    << "partition_disk", "format_and_mount", "generate_hardware_config",
       "write_hardware_config" >>

C2_EarlyFailureState ==
    \A k \in 1..4 :
       (Len(effects) >= k /\ ~effects[k].ok) =>
          /\ effects[k].op = LeadingStages[k]
          /\ shared_install.progress = k
          /\ ~shared_install.done
          /\ StartLines(shared_install.log) = SubSeq(ExpectedStarts, 1, k)
          /\ InstallReturned => shared_install.error # None

\* hardware-config generation has failed and the worker has returned
C2_Witness ==
    /\ InstallReturned
    /\ Len(effects) = 3
    /\ effects[3].op = "generate_hardware_config"
    /\ ~effects[3].ok
    /\ shared_install.progress = 3

\* ------------------------------------------------------------------ C3
\* C3: the stages start in the fixed order partition, format/mount, generate
\* and write the hardware configuration, host configuration (custom mode
\* only), one user file per user in user order, git staging, the pre-install
\* hooks, the install command, the repository copy, the post-install hooks,
\* and then done.  No stage logs its start before the previous command has
\* succeeded, and done is set only after every command has succeeded.
C3_StageOrder ==
    shared_install.exists =>
       LET starts == StartLines(shared_install.log) IN
          /\ IsPrefix(Commands, ExpectedCommands)
          /\ IsPrefix(starts, ExpectedStarts)
          /\ Len(effects) <= Len(starts)
          /\ \A j \in 2..Len(starts) :
                j - 1 <= Len(effects) /\ effects[j - 1].ok
          /\ shared_install.done =>
                /\ Commands = ExpectedCommands
                /\ starts = ExpectedStarts
                /\ \A j \in 1..Len(effects) : effects[j].ok

\* a complete custom-mode run with users and hooks of both kinds
C3_Witness ==
    /\ shared_install.exists
    /\ shared_install.done
    /\ install_thread.is_custom
    /\ Len(install_thread.users) >= 2
    /\ Len(install_thread.pre_hooks) >= 2
    /\ Len(install_thread.post_hooks) >= 2
    /\ Len(effects) = Len(ExpectedCommands)

\* ------------------------------------------------------------------ C4
\* C4: pre-install hooks run in list order after git staging has succeeded
\* and before the install command; post-install hooks run in list order
\* after the repository copy has succeeded.  When hook i fails, no later
\* hook and no later command runs (the install command never runs after a
\* failed pre-install hook), the error names the hook failure once the
\* worker has returned, and done stays false.
IsHook(op) == op \in {"pre_install_hook", "post_install_hook"}

HookPredecessor(e) ==
    CASE e.op = "pre_install_hook" /\ e.i = 1 -> Command("git_add_all", 0)
      [] e.op = "post_install_hook" /\ e.i = 1 -> Command("copy_repo_to_target", 0)
      [] OTHER -> Command(e.op, e.i - 1)

HookError(op) ==
    IF op = "pre_install_hook" THEN "Pre-install hook failed"
    ELSE "Post-install hook failed"

C4_HookOrderAndFailure ==
    /\ \A j \in 1..Len(effects) :
          IsHook(effects[j].op) =>
             /\ j > 1
             /\ Commands[j - 1] = HookPredecessor(effects[j])
             /\ effects[j - 1].ok
             /\ ~effects[j].ok =>
                   /\ j = Len(effects)
                   /\ ~shared_install.done
                   /\ InstallReturned =>
                         shared_install.error = HookError(effects[j].op)
    /\ \A j \in 1..Len(effects) :
          effects[j].op = "nixos_install" =>
             /\ j > 1
             /\ effects[j - 1].ok
             /\ Commands[j - 1] =
                   IF install_thread.pre_hooks = << >>
                   THEN Command("git_add_all", 0)
                   ELSE Command("pre_install_hook", Len(install_thread.pre_hooks))
    /\ shared_install.exists /\ shared_install.done =>
          \A i \in 1..Len(install_thread.post_hooks) :
             \E j \in 1..Len(effects) :
                Commands[j] = Command("post_install_hook", i)

\* the first of two pre-install hooks has failed and the worker has returned
C4_Witness ==
    /\ InstallReturned
    /\ Len(install_thread.pre_hooks) >= 2
    /\ effects # << >>
    /\ Last(effects) = [op |-> "pre_install_hook", i |-> 1, ok |-> FALSE]
    /\ shared_install.error = "Pre-install hook failed"

\* ------------------------------------------------------------------ C5
\* C5: once a pipeline has reported a terminal error (a failed tool, or a
\* crashed worker that poisoned the lock) the wizard never leaves that
\* pipeline's step: CloningRepo never becomes SelectPreset, Installing never
\* becomes RootPassword.
C5_NoAdvanceAfterError ==
    /\ (shared_clone.error # None \/ clone_poisoned \/ app.clone_error # None)
          => app.step = "CloningRepo"
    /\ (shared_install.error # None \/ install_poisoned
           \/ app.install_error # None)
          => app.step = "Installing"

\* the install command has failed, the operator has seen the error, pressed
\* Enter and the loop has exited at Installing
C5_Witness ==
    /\ app.step = "Installing"
    /\ app.install_error # None
    /\ ~install_poisoned
    /\ effects # << >>
    /\ ~Last(effects).ok
    /\ main_pc = "exited"

\* ------------------------------------------------------------------ C6
\* C6: the wizard leaves CloningRepo only for SelectPreset and only when the
\* worker has set done with no error and a poll tick has copied that; it
\* leaves Installing only for RootPassword and only under the same
\* conditions.  Conversely, when a tick has copied done = true with no error
\* (and the operator has not asked to quit), the next step of the loop is
\* that advance.
C6_AutoAdvance ==
    [][ /\ (app.step = "CloningRepo" /\ app'.step # "CloningRepo") =>
              /\ app'.step = "SelectPreset"
              /\ shared_clone.done /\ shared_clone.error = None
              /\ ~clone_poisoned
              /\ app.clone_done /\ app.clone_error = None
        /\ (app.step = "Installing" /\ app'.step # "Installing") =>
              /\ app'.step = "RootPassword"
              /\ shared_install.done /\ shared_install.error = None
              /\ ~install_poisoned
              /\ app.install_done /\ app.install_error = None
        /\ (main_pc = "after_draw" /\ main_pc' # "after_draw" /\ ~app.should_quit) =>
              /\ (app.step = "CloningRepo" /\ app.clone_done
                    /\ app.clone_error = None) => app'.step = "SelectPreset"
              /\ (app.step = "Installing" /\ app.install_done
                    /\ app.install_error = None) => app'.step = "RootPassword"
      ]_vars

\* the loop is about to advance a completed installation
C6_Witness ==
    /\ main_pc = "after_draw"
    /\ app.step = "Installing"
    /\ app.install_done
    /\ app.install_error = None
    /\ ~app.should_quit

\* ------------------------------------------------------------------ C7
\* C7: when a worker has panicked while holding the lock, every later poll
\* tick on that pipeline's step sets the wizard-visible error to the crash
\* message of that pipeline, a message no tool failure produces, and the
\* wizard does not advance.
CloneCrashMessage == "Clone thread crashed unexpectedly"

InstallCrashMessage == "Installation thread crashed unexpectedly"

C7_PoisonReported ==
    [][ /\ (main_pc = "loop_top" /\ main_pc' = "after_draw") =>
              /\ (app.step = "CloningRepo" /\ clone_poisoned) =>
                    app'.clone_error = CloneCrashMessage
              /\ (app.step = "Installing" /\ install_poisoned) =>
                    app'.install_error = InstallCrashMessage
        /\ (clone_poisoned \/ install_poisoned) => app'.step = app.step
        /\ app'.clone_error = CloneCrashMessage => clone_poisoned
        /\ app'.install_error = InstallCrashMessage => install_poisoned
        /\ shared_clone'.error # CloneCrashMessage
        /\ shared_install'.error # InstallCrashMessage
      ]_vars

\* the clone worker has crashed and a tick has reported it
C7_Witness ==
    /\ clone_poisoned
    /\ app.step = "CloningRepo"
    /\ app.clone_error = CloneCrashMessage
    /\ main_pc = "after_draw"

\* ------------------------------------------------------------------ C8
\* C8: the clone worker and the install worker are never running at the same
\* time.  While the clone worker runs the wizard is at CloningRepo and no
\* install worker exists; the wizard leaves CloningRepo only after the clone
\* worker has returned; the install worker runs only at Installing.  (A
\* worker counts as running until its last critical section; the steps
\* between SelectPreset and Confirm start no worker: start_clone is called
\* from App::new and start_installation from confirm_install alone.)
C8_OneWorkerAtATime ==
    /\ ~(CloneRunning /\ InstallRunning)
    /\ CloneRunning => (app.step = "CloningRepo" /\ install_thread.pc = "none")
    /\ app.step # "CloningRepo" => ~CloneRunning
    /\ InstallRunning => app.step = "Installing"
    /\ app.step = "Confirm" => install_thread.pc = "none"

\* the wizard has left CloningRepo and the clone worker has returned
C8_Witness ==
    /\ app.step = "SelectPreset"
    /\ clone_thread.pc = "returned"
    /\ install_thread.pc = "none"

\* ------------------------------------------------------------------ C9
\* C9: the logs are append-only as the foreground sees them: of any two
\* consecutive snapshots the earlier one is a prefix of the later one, for
\* the install log and for the clone log, because both workers only append.
C9_LogsAppendOnly ==
    [][ /\ IsPrefix(app.install_log, app'.install_log)
        /\ IsPrefix(app.clone_log, app'.clone_log)
        /\ IsPrefix(shared_install.log, shared_install'.log)
        /\ IsPrefix(shared_clone.log, shared_clone'.log)
      ]_vars

\* the foreground holds a non-empty snapshot of the install log and the
\* worker has appended to the log since
C9_Witness ==
    /\ app.step = "Installing"
    /\ main_pc = "loop_top"
    /\ Len(app.install_log) >= 2
    /\ Len(shared_install.log) > Len(app.install_log)

\* ----------------------------------------------------------------- C10
\* C10 as stated: the counter is incremented once per completed stage, so it
\* never exceeds the number of commands that have succeeded.
IsOk(e) == e.ok

C10_CountsCompletedStages ==
    shared_install.exists =>
       shared_install.progress <= Len(SelectSeq(effects, IsOk))

\* the number the worker gives the stage that runs command c
StageNumber(c) ==
    CASE c.op = "partition_disk" -> 1
      [] c.op = "format_and_mount" -> 2
      [] c.op = "generate_hardware_config" -> 3
      [] c.op = "write_hardware_config" -> 4
      [] c.op = "write_host_config" -> 5
      [] c.op = "write_user_config" -> 5
      [] c.op = "git_add_all" -> 6
      [] c.op = "pre_install_hook" -> 6 + c.i
      [] c.op = "nixos_install" -> 7 + Len(install_thread.pre_hooks)
      [] c.op = "copy_repo_to_target" -> 8 + Len(install_thread.pre_hooks)
      [] c.op = "post_install_hook" -> 8 + Len(install_thread.pre_hooks) + c.i

\* C10 amended: the counter never decreases and each change raises it by
\* exactly one, but it is raised when a stage starts, before the stage's
\* command runs, and not when the stage completes: when a command completes
\* or fails the counter already holds the number of its stage.  Writing the
\* user files does not raise it, and the host-configuration stage raises it
\* to 5 even in preset mode, where that stage writes nothing.
C10_ProgressCountsStartedStages ==
    [][ /\ shared_install'.progress \in
              {shared_install.progress, shared_install.progress + 1}
        /\ effects' # effects =>
              /\ shared_install'.progress = shared_install.progress
              /\ shared_install.progress = StageNumber(Last(effects'))
      ]_vars

\* a complete run with two hooks of each kind: the counter has reached 13
C10_Witness ==
    /\ shared_install.exists
    /\ shared_install.done
    /\ shared_install.progress = BaseStages + 2 * MaxHooks
    /\ Len(install_thread.pre_hooks) = MaxHooks
    /\ Len(install_thread.post_hooks) = MaxHooks

\* ----------------------------------------------------------------- C11
\* C11: the install total is computed once, when start_installation creates
\* the shared state and before the worker exists, as the base count plus the
\* number of pre-install hooks plus the number of post-install hooks; no
\* step changes it afterwards; the progress counter never exceeds it, and
\* when done is set the counter equals it.
C11_TotalFixed ==
    [][ /\ (~shared_install.exists /\ shared_install'.exists) =>
              /\ install_thread.pc = "none"
              /\ shared_install'.total =
                    BaseStages + Len(app.pre_install_hooks)
                               + Len(app.post_install_hooks)
        /\ shared_install.exists =>
              /\ shared_install'.exists
              /\ shared_install'.total = shared_install.total
        /\ shared_install'.progress <= shared_install'.total
        /\ shared_install'.done =>
              shared_install'.progress = shared_install'.total
      ]_vars

\* a run with hooks of both kinds has completed and the foreground shows the
\* total the worker was started with
C11_Witness ==
    /\ shared_install.done
    /\ shared_install.total = BaseStages + 2 * MaxHooks
    /\ shared_install.progress = shared_install.total
    /\ app.install_total = shared_install.total
    /\ app.install_done

\* ----------------------------------------------------------------- C12
\* the fields of a shared record r that differ from those of r2
ChangedFields(r, r2) == {f \in DOMAIN r : r[f] # r2[f]}

\* positions at which a worker spawns, reads from, waits on or runs an
\* external process
CloneExternal == {"spawn", "read", "wait"}

InstallExternal == InstallRunning /\ install_thread.pc \notin InstallLocked

CloneSucceeded == clone_thread.result = "Clone completed successfully."

CloneFailures == {"git clone failed with exit code",
                  "Failed to wait for git clone", "Failed to run git clone"}

\* C13: done is set only after git has exited successfully, and then percent
\* is 100; after a nonzero exit, a failed wait or a failed spawn the worker
\* sets the terminal error and leaves done false; done and error are never
\* both set in the shared clone state.
C13_CloneCompletion ==
    /\ shared_clone.done =>
          /\ CloneSucceeded
          /\ clone_thread.pc = "returned"
          /\ shared_clone.percent = 100
    /\ shared_clone.error # None =>
          /\ clone_thread.result \in CloneFailures
          /\ shared_clone.error = clone_thread.result
          /\ ~shared_clone.done
    /\ clone_thread.pc = "returned" =>
          /\ CloneSucceeded => shared_clone.done
          /\ ~CloneSucceeded =>
                (clone_thread.result \in CloneFailures /\ shared_clone.error # None)
    /\ ~(shared_clone.done /\ shared_clone.error # None)

\* git printed a progress line below 100 percent and exited successfully
C13_Witness ==
    /\ shared_clone.done
    /\ shared_clone.percent = 100
    /\ \E j \in 1..Len(shared_clone.log) :
          shared_clone.log[j] = <<"4", "2", "%">>
    /\ Last(shared_clone.log) = Msg("Clone completed successfully.")

\* ----------------------------------------------------------------- C14
\* the positions of the '%' characters of a line
PercentSigns(line) == {i \in 1..Len(line) : line[i] = "%"}

\* how many digits stand immediately before position i
DigitRun(line, i) ==
    CHOOSE k \in 0..(i - 1) :
       /\ \A j \in (i - k)..(i - 1) : IsDigit(line[j])
       /\ k = i - 1 \/ ~IsDigit(line[i - k - 1])

RECURSIVE Pow10(_)
Pow10(n) == IF n = 0 THEN 1 ELSE 10 * Pow10(n - 1)

\* the decimal number formed by the k characters before position i
RECURSIVE DecimalBefore(_, _, _)
DecimalBefore(line, i, k) ==
    IF k = 0 THEN 0
    ELSE DigitVal(line[i - k]) * Pow10(k - 1) + DecimalBefore(line, i, k - 1)

NumberBefore(line, i) == DecimalBefore(line, i, DigitRun(line, i))

\* the worker's step that stores a completed line
StoresLine == clone_thread.pc = "line" /\ clone_thread'.pc = "read"

\* C14 as stated: every completed line is appended to the log; when the line
\* contains a '%' with digits immediately before it, percent becomes that
\* number; otherwise percent is unchanged.
C14_AnyPercentIsStored ==
    [][ StoresLine =>
          LET line == clone_thread.buf
              numbered == {i \in PercentSigns(line) : DigitRun(line, i) > 0}
          IN /\ shared_clone'.log = Append(shared_clone.log, line)
             /\ numbered # {} =>
                   \E i \in numbered :
                      shared_clone'.percent = NumberBefore(line, i)
             /\ numbered = {} =>
                   shared_clone'.percent = shared_clone.percent
      ]_vars

Least(S) == CHOOSE i \in S : \A j \in S : i <= j

\* C14 amended: every completed line is appended to the log; percent becomes
\* the number formed by the digits immediately before the first '%' of the
\* line when there is such a number and it is at most 255; in every other
\* case (no '%', no digit before the first '%', a number above 255) percent
\* is unchanged.
C14_FirstPercentWithinByte ==
    [][ StoresLine =>
          LET line == clone_thread.buf
              first == Least(PercentSigns(line))
              stored == /\ PercentSigns(line) # {}
                        /\ DigitRun(line, first) > 0
                        /\ NumberBefore(line, first) <= U8Max
          IN /\ shared_clone'.log = Append(shared_clone.log, line)
             /\ shared_clone'.percent =
                   IF stored THEN NumberBefore(line, first)
                   ELSE shared_clone.percent
      ]_vars

\* git printed a line at 42 percent and then one at 100 percent; the worker
\* has stored both and is reading on
C14_Witness ==
    /\ clone_thread.pc = "read"
    /\ Len(shared_clone.log) = 3
    /\ shared_clone.log[2] = <<"4", "2", "%">>
    /\ shared_clone.log[3] = <<"1", "0", "0", "%">>
    /\ shared_clone.percent = 100
    /\ ~shared_clone.done

\* ------------------------------------------------------------------ C15
\* the plan holds no entry whose mount point is "/"
LacksRoot(a) ==
    \A i \in 1..Len(a.partitions) : a.partitions[i].mount_point # <<"/">>

WorkerStarted == shared_install' # shared_install \/ install_thread' # install_thread

\* C15: confirming 'install' on the Confirm step with a plan that has no
\* entry mounted at "/" leaves the step at Confirm, sets a status message
\* and starts no worker; no step taken from Confirm with such a plan starts
\* a worker or changes the plan, and the wizard never enters Installing with
\* a plan lacking "/".
C15_RootRequired ==
    [][ /\ (ConfirmInstall /\ app.confirm_cursor = 0 /\ LacksRoot(app)) =>
              /\ app'.step = "Confirm"
              /\ app'.status_message # None
              /\ ~WorkerStarted
        /\ (app.step = "Confirm" /\ LacksRoot(app)) =>
              /\ app'.step # "Installing"
              /\ app'.partitions = app.partitions
              /\ ~WorkerStarted
        /\ app'.step = "Installing" => ~LacksRoot(app')
      ]_vars

\* the operator confirmed a plan of one partition mounted at "//" and was
\* refused
C15_Witness ==
    /\ app.step = "Confirm"
    /\ app.partitions # <<>>
    /\ LacksRoot(app)
    /\ app.confirm_cursor = 0
    /\ app.status_message = "No root (/) partition defined"
    /\ install_thread = NoThread

\* ------------------------------------------------------------------ C16
RootEntries(a) ==
    {i \in 1..Len(a.partitions) : a.partitions[i].mount_point = <<"/">>}

\* C16: every plan the install pipeline is started with contains exactly
\* one entry whose mount point is "/", in full-disk mode and in custom mode.
C16_ExactlyOneRoot ==
    app.step = "Installing" => Cardinality(RootEntries(app)) = 1

\* ------------------------------------------------------------------ C17
AbsentSizes(a) == {i \in 1..Len(a.partitions) : a.partitions[i].size_mb = <<>>}

\* C17: in every plan reachable at Confirm or Installing at most one entry
\* has an absent size, and that entry is the last one of the plan.
C17_AbsentSizeLast ==
    app.step \in {"Confirm", "Installing"} =>
        AbsentSizes(app) \subseteq {Len(app.partitions)}

\* --------------------------------------------------------- C18 and C19
\* the operator presses Enter on a size step: the handler accepts the input
\* and leaves the step, rejects it with a message, or panics
EnterOn(step) ==
    /\ app.step = step
    /\ main_pc = "after_draw"
    /\ app.status_message = None
    /\ \/ app'.step # step
       \/ app'.status_message # None
       \/ main_pc' = "panicked"

\* the input is a non-negative integer in decimal notation
IsNatural(input) == input # <<>> /\ AllDigits(input)

\* the value of such an input, and its exact product with 1024, as numbers
\* of any size
ExactGib(input) == BigDigits(input, <<>>)

ExactMib(input) == BigMulAdd(ExactGib(input), MibPerGib, 0)

EfiEntry ==
    Plan(<<"E", "F", "I">>, <<"/", "b", "o", "o", "t">>, <<U64(EfiSizeMb)>>, "Fat32")

RootEntry == Plan(<<"r", "o", "o", "t">>, <<"/">>, <<>>, "Ext4")

SwapEntry(size_mb) ==
    Plan(<<"s", "w", "a", "p">>, <<"s", "w", "a", "p">>, <<size_mb>>, "Swap")

\* C18: whenever full-disk mode accepts a swap size of s GiB, the plan is
\* built from scratch, whatever it held before: [EFI 512 MiB at /boot, root
\* at / with absent size] when s = 0 or the input is empty, and [EFI, swap of
\* s*1024 MiB, root] when s > 0.
C18_FullDiskPlan ==
    [][ (EnterOn("SwapSize") /\ app'.step = "Confirm") =>
           LET input == Trim(app.swap_size_input) IN
              /\ input = <<>> \/ IsNatural(input)
              /\ app'.partitions =
                    IF input = <<>> \/ ExactGib(input) = U64(0)
                    THEN <<EfiEntry, RootEntry>>
                    ELSE <<EfiEntry, SwapEntry(ExactMib(input)), RootEntry>>
      ]_vars

\* C19: on both size steps the input is accepted exactly when it is empty or
\* a non-negative integer; an accepted integer g gives a size of exactly
\* g*1024 MiB (in the swap step g = 0 gives no swap entry), empty input gives
\* no swap entry in the swap step and an absent size in the custom step; any
\* other input is rejected: the step stays, a message is set and the plan is
\* unchanged.
C19_SizeInput ==
    [][ /\ EnterOn("SwapSize") =>
              LET input == Trim(app.swap_size_input) IN
                 IF input = <<>> \/ IsNatural(input)
                 THEN /\ app'.step = "Confirm"
                      /\ \A j \in 1..Len(app'.partitions) :
                            app'.partitions[j].fs_type = "Swap" =>
                               /\ input # <<>>
                               /\ app'.partitions[j].size_mb = <<ExactMib(input)>>
                      /\ (input # <<>> /\ ExactGib(input) # U64(0)) =>
                            Len(app'.partitions) = 3
                 ELSE /\ app'.step = "SwapSize"
                      /\ app'.status_message # None
                      /\ app'.partitions = app.partitions
        /\ EnterOn("CustomPartitionFs") =>
              LET input == Trim(app.part_size_input) IN
                 IF input = <<>> \/ IsNatural(input)
                 THEN /\ app'.step = "CustomPartitionAnother"
                      /\ Len(app'.partitions) = Len(app.partitions) + 1
                      /\ Last(app'.partitions).size_mb =
                            IF input = <<>> THEN <<>> ELSE <<ExactMib(input)>>
                 ELSE /\ app'.step = "CustomPartitionFs"
                      /\ app'.status_message # None
                      /\ app'.partitions = app.partitions
      ]_vars

\* ------------------------------------------------------------------ C20
\* what the wizard has accumulated
Accumulated(a) ==
    <<a.users, a.partitions, a.host_name, a.selected_disk, a.partition_mode>>

\* steps reached only after a user or a partition was appended
AfterAppend(a) ==
    a.step \in {"AddAnotherUser", "SelectHmModules", "SelectUserPackages",
                "SelectDisk", "CustomPartitionAnother"}

\* the mount point step, entered by answering 'add another'
NextPartitionEntry(a) == a.step = "CustomPartitionMount" /\ a.partitions # <<>>

\* C20 as stated: back() on AddAnotherUser, SelectHmModules,
\* SelectUserPackages, SelectDisk, CustomPartitionAnother, and on the mount
\* point step entered after 'add another' with a non-empty plan, returns
\* false and leaves the accumulated data unchanged.
C20_BackRefusedAfterAppend ==
    (AfterAppend(app) \/ NextPartitionEntry(app)) =>
        /\ ~GoBack(app)[1]
        /\ Accumulated(GoBack(app)[2]) = Accumulated(app)

\* C20, amended: back() on AddAnotherUser, SelectHmModules,
\* SelectUserPackages, SelectDisk and CustomPartitionAnother returns false
\* and changes nothing; on the mount point step entered after 'add another'
\* with a non-empty plan it returns true and moves to CustomPartitionAnother,
\* changing nothing else.
C20_BackAfterAppend ==
    /\ AfterAppend(app) => GoBack(app) = <<FALSE, app>>
    /\ NextPartitionEntry(app) =>
          GoBack(app) = <<TRUE, [app EXCEPT !.step = "CustomPartitionAnother"]>>

\* Esc was pressed on CustomPartitionAnother with a partition in the plan:
\* back() refused and the key handler asked to quit
C20_Witness ==
    /\ app.step = "CustomPartitionAnother"
    /\ app.partitions # <<>>
    /\ app.should_quit
    /\ main_pc = "loop_top"

\* ------------------------------------------------------------------ C21
\* the text the operator has entered on a step and not yet committed
StepInput(a, step) ==
    CASE step = "HostName" -> a.host_name_input
      [] step = "CreateUser" -> a.current_username
      [] step = "SwapSize" -> a.swap_size_input
      [] step = "CustomPartitionMount" -> a.part_mount_input
      [] step = "CustomPartitionSize" -> a.part_size_input
      [] step = "RootPassword" -> a.root_password
      [] step = "RootPasswordConfirm" -> a.root_password_confirm
      [] step = "UserPassword" -> a.current_password
      [] step = "UserPasswordConfirm" -> a.current_password_confirm
      [] OTHER -> <<>>

ConfirmationSteps == {"RootPasswordConfirm", "UserPasswordConfirm"}

EntryStep(step) ==
    IF step = "RootPasswordConfirm" THEN "RootPassword" ELSE "UserPassword"

\* C21 as stated: a back() that succeeds clears the uncommitted input of
\* the step being left, and back() from a password-confirmation step
\* returns to the password-entry step with the confirmation buffer cleared.
C21_BackClearsInput ==
    /\ GoBack(app)[1] => StepInput(GoBack(app)[2], app.step) = <<>>
    /\ app.step \in ConfirmationSteps =>
          /\ GoBack(app)[1]
          /\ GoBack(app)[2].step = EntryStep(app.step)
          /\ StepInput(GoBack(app)[2], app.step) = <<>>

\* C21, amended: a back() that succeeds changes the current step and
\* nothing else, so the uncommitted input of the step being left is kept;
\* back() from a password-confirmation step is refused and changes nothing.
C21_BackKeepsInput ==
    /\ GoBack(app)[1] =>
          /\ GoBack(app)[2] = [app EXCEPT !.step = GoBack(app)[2].step]
          /\ GoBack(app)[2].step # app.step
    /\ app.step \in {"HostName", "SelectNixosModules", "SelectSystemPackages",
                     "CreateUser", "PartitionModeSelect", "SwapSize",
                     "CustomPartitionMount", "CustomPartitionSize",
                     "CustomPartitionFs", "Confirm"} => GoBack(app)[1]
    /\ app.step \in ConfirmationSteps => GoBack(app) = <<FALSE, app>>

\* Esc on HostName with a host name typed: the wizard is back at
\* SelectPreset and the typed text is still in the input
C21_Witness ==
    /\ app.step = "SelectPreset"
    /\ app.host_name_input # <<>>
    /\ app.host_name = <<>>
    /\ ~app.should_quit

\* ------------------------------------------------------------------ C22
\* a key press reaches the handlers and back() would refuse
BackRefused == Polling /\ app.status_message = None /\ ~GoBack(app)[1]

\* C22 as stated: on every wizard step, Esc on a step whose reversal is
\* refused makes the program quit.
C22_EveryRefusalQuits ==
    [][ BackRefused => ENABLED (KeyEsc /\ app'.should_quit) ]_vars

\* C22, amended: on every step but CloningRepo, Installing and Complete,
\* Esc on a step whose reversal is refused sets should_quit; on Installing
\* and Complete the Esc handler does not run.
C22_RefusalQuits ==
    [][ /\ (BackRefused /\ app.step \notin {"CloningRepo", "Installing", "Complete"})
              => ENABLED (KeyEsc /\ app'.should_quit)
        /\ (KeyEsc /\ ~GoBack(app)[1]) => app'.should_quit
        /\ app.step \in {"CloningRepo", "Installing", "Complete"} => ~ENABLED KeyEsc
      ]_vars

\* Esc on a password step after the installation: back() refused and the
\* handler asked to quit
C22_Witness ==
    /\ app.step = "UserPasswordConfirm"
    /\ app.should_quit
    /\ app.install_done
    /\ main_pc = "loop_top"

\* ------------------------------------------------------------------ C23
\* Enter on CreateUser: the key handler calls confirm_username
ConfirmsUsername ==
    /\ Dispatch("CreateUser")
    /\ main_pc' = "loop_top"
    /\ \E config_exists \in BOOLEAN : app' = ConfirmUsername(app, config_exists)

Usernames(a) == {a.users[i].username : i \in 1..Len(a.users)}

\* the claim's condition on the trimmed input
Acceptable(name, a) ==
    /\ name # <<>>
    /\ IsAsciiLowercase(name[1]) \/ name[1] = "_"
    /\ \A i \in 2..Len(name) :
          IsAsciiLowercase(name[i]) \/ IsDigit(name[i]) \/ name[i] \in {"-", "_"}
    /\ name \notin Usernames(a)

\* C23: for every input, confirm on CreateUser appends a user (with the
\* trimmed input for its name) and moves to AddAnotherUser if and only if
\* the trimmed input is non-empty, starts with a-z or _, continues with a-z,
\* 0-9, - or _ only, and is no username accepted before; otherwise the user
\* list is unchanged and the step stays CreateUser.
C23_UsernameAcceptance ==
    [][ ConfirmsUsername =>
           LET name == Trim(app.current_username) IN
              IF Acceptable(name, app)
              THEN /\ Len(app'.users) = Len(app.users) + 1
                   /\ SubSeq(app'.users, 1, Len(app.users)) = app.users
                   /\ Last(app'.users).username = name
                   /\ app'.step = "AddAnotherUser"
              ELSE /\ app'.users = app.users
                   /\ app'.step = "CreateUser"
      ]_vars

\* the input " _1" was accepted as the second user "_1"
C23_Witness ==
    /\ app.step = "AddAnotherUser"
    /\ Len(app.users) = 2
    /\ app.users[2].username = <<"_", "1">>

\* ------------------------------------------------------------------ C24
\* C24: confirming a username that duplicates an accepted one is rejected
\* with a message; the input field, the user list and the step are
\* unchanged.
C24_DuplicateRejected ==
    [][ (ConfirmsUsername /\ Trim(app.current_username) \in Usernames(app)) =>
           /\ app'.status_message # None
           /\ app'.current_username = app.current_username
           /\ app'.users = app.users
           /\ app'.step = app.step
      ]_vars

\* the input "a " was rejected as a duplicate of the user "a" and is still
\* in the field
C24_Witness ==
    /\ app.step = "CreateUser"
    /\ app.status_message = "User already exists"
    /\ app.current_username = <<"a", " ">>
    /\ Usernames(app) = {<<"a">>}

\* ------------------------------------------------------------------ C25
\* b is a with a status message set and nothing else changed
RejectedAs(a, b) ==
    /\ b.status_message # None
    /\ b = [a EXCEPT !.status_message = b.status_message]

\* C25: confirming an empty (after trimming, where the handler trims) host
\* name, username, custom mount point, user password or root password sets
\* a status message and changes nothing else, and confirming again gives
\* the same state.
C25_EmptyInputRetry ==
    /\ (app.step = "HostName" /\ Trim(app.host_name_input) = <<>>) =>
          /\ RejectedAs(app, ConfirmHostName(app))
          /\ ConfirmHostName(ConfirmHostName(app)) = ConfirmHostName(app)
    /\ (app.step = "CreateUser" /\ Trim(app.current_username) = <<>>) =>
          \A c \in BOOLEAN :
             /\ RejectedAs(app, ConfirmUsername(app, c))
             /\ ConfirmUsername(ConfirmUsername(app, c), c) = ConfirmUsername(app, c)
    /\ (app.step = "CustomPartitionMount" /\ Trim(app.part_mount_input) = <<>>) =>
          /\ RejectedAs(app, ConfirmCustomMount(app))
          /\ ConfirmCustomMount(ConfirmCustomMount(app)) = ConfirmCustomMount(app)
    /\ (app.step = "UserPassword" /\ app.current_password = <<>>) =>
          /\ RejectedAs(app, ConfirmUserPassword(app))
          /\ ConfirmUserPassword(ConfirmUserPassword(app)) = ConfirmUserPassword(app)
    /\ (app.step = "RootPassword" /\ app.root_password = <<>>) =>
          /\ RejectedAs(app, ConfirmRootPassword(app))
          /\ ConfirmRootPassword(ConfirmRootPassword(app)) = ConfirmRootPassword(app)

\* Enter on HostName with two blanks typed: the message is shown and the
\* wizard is where it was
C25_Witness ==
    /\ app.step = "HostName"
    /\ app.host_name_input = <<" ", " ">>
    /\ app.status_message = "Host name cannot be empty"
    /\ app.host_name = <<>>

\* ------------------------------------------------------------------ C26
\* the users from position `from` on (counted from 0) that need module
\* selection, and the next of them
Flagged(a, from) ==
    {j \in from..(Len(a.users) - 1) : a.users[j + 1].needs_hm_selection}

NextFlagged(a, from) ==
    IF Flagged(a, from) = {} THEN Len(a.users)
    ELSE CHOOSE j \in Flagged(a, from) : \A k \in Flagged(a, from) : j <= k

\* the walk resumes at position `from`: the next user that needs module
\* selection is shown SelectHmModules, and SelectDisk follows the last one
Routed(from) ==
    /\ app'.hm_user_index = NextFlagged(app, from)
    /\ app'.step = IF NextFlagged(app, from) < Len(app.users)
                   THEN "SelectHmModules" ELSE "SelectDisk"
    /\ app'.users = app.users

\* C26: after 'add another' is declined the users are walked in creation
\* order: a user whose flag is false is skipped, a user whose flag is true
\* is shown one module-selection step and then one package-selection step,
\* and SelectDisk is entered when no user that needs selection is left.
C26_ModuleSelectionRouting ==
    [][ /\ (app.step = "AddAnotherUser"
               /\ app'.step \notin {"AddAnotherUser", "CreateUser"}) => Routed(0)
        /\ (app.step = "SelectHmModules" /\ app'.step # app.step) =>
              /\ app.users[app.hm_user_index + 1].needs_hm_selection
              /\ app'.step = "SelectUserPackages"
              /\ app'.hm_user_index = app.hm_user_index
              /\ app'.users = app.users
        /\ (app.step = "SelectUserPackages" /\ app'.step # app.step) =>
              /\ app.users[app.hm_user_index + 1].needs_hm_selection
              /\ Routed(app.hm_user_index + 1)
        /\ (app.step \in {"SelectHmModules", "SelectUserPackages"}
               /\ app'.step = app.step) =>
              /\ app'.hm_user_index = app.hm_user_index
              /\ app'.users = app.users
      ]_vars

\* of two users the first has a configuration file and the second has
\* none: the second user is at the package-selection step
C26_Witness ==
    /\ app.step = "SelectUserPackages"
    /\ app.hm_user_index = 1
    /\ Len(app.users) = 2
    /\ ~app.users[1].needs_hm_selection
    /\ app.users[2].needs_hm_selection

\* ------------------------------------------------------------------ C27
IsPasswordCommand(e) == e.op \in PasswordCommands

IsApplied(e) == IsPasswordCommand(e) /\ e.ok

\* the password commands run so far, and those of them that succeeded;
\* account 0 is root, account j is the j-th user
PasswordAttempts == SelectSeq(effects, IsPasswordCommand)

Applied == SelectSeq(effects, IsApplied)

\* the account the wizard is asking a password for
CurrentAccount(a) ==
    IF a.step \in {"RootPassword", "RootPasswordConfirm"} THEN 0
    ELSE a.password_user_index + 1

PasswordSteps ==
    {"RootPassword", "RootPasswordConfirm", "UserPassword", "UserPasswordConfirm"}

AppliedInOrder ==
    /\ \A j \in 1..Len(Applied) : Applied[j].i = j - 1
    /\ Len(Applied) <= 1 + Len(app.users)
    /\ PasswordAttempts # <<>> => shared_install.done /\ app.install_done
    /\ app.step \in PasswordSteps =>
          /\ shared_install.done
          /\ Len(Applied) = CurrentAccount(app)
          /\ CurrentAccount(app) <= Len(app.users)
    /\ app.step = "Complete" => Len(Applied) = 1 + Len(app.users)

FailureKeepsAccount ==
    (Len(effects') = Len(effects) + 1 /\ IsPasswordCommand(Last(effects'))) =>
        /\ Last(effects').i = CurrentAccount(app)
        /\ IF Last(effects').ok
           THEN app'.step \in {"UserPassword", "Complete"}
           ELSE /\ CurrentAccount(app') = CurrentAccount(app)
                /\ app'.step \in {"RootPassword", "UserPassword"}

\* C27: the root password and then each user's password, in creation order,
\* are applied successfully exactly once per account, only after the
\* install pipeline has set done; Complete is reached only when every
\* account's password has been applied; a failed application keeps the
\* wizard on the same account.
C27_PasswordApplication == []AppliedInOrder /\ [][FailureKeepsAccount]_vars

\* two users: the wizard is at Complete after one command failed and was
\* repeated
C27_Witness ==
    /\ app.step = "Complete"
    /\ Len(app.users) = 2
    /\ Len(Applied) = 3
    /\ Len(PasswordAttempts) = 4

\* ------------------------------------------------------------------ C28
\* C28: Enter on a confirmation step whose buffer differs from the entry
\* clears both buffers and returns to the entry step; no password command
\* is run and the account being processed stays the same.
C28_PasswordMismatch ==
    [][ /\ (app.step = "RootPasswordConfirm" /\ app'.step # app.step
               /\ app.root_password # app.root_password_confirm) =>
              /\ app'.step = "RootPassword"
              /\ app'.root_password = <<>>
              /\ app'.root_password_confirm = <<>>
              /\ effects' = effects
              /\ app'.password_user_index = app.password_user_index
        /\ (app.step = "UserPasswordConfirm" /\ app'.step # app.step
               /\ app.current_password # app.current_password_confirm) =>
              /\ app'.step = "UserPassword"
              /\ app'.current_password = <<>>
              /\ app'.current_password_confirm = <<>>
              /\ effects' = effects
              /\ app'.password_user_index = app.password_user_index
              /\ app'.users = app.users
      ]_vars

\* the confirmation for the second user differed: the wizard is back at
\* UserPassword for that user with the mismatch noted
C28_Witness ==
    /\ app.step = "UserPassword"
    /\ app.password_mismatch
    /\ app.password_user_index = 1
    /\ app.current_password = <<>>
    /\ Len(Applied) = 2

\* ------------------------------------------------------------------ C29
DiskOps ==
    {"mkfs.fat", "mkfs.ext4", "mkfs.btrfs", "mkswap", "swapon", "mkdir", "mount"}

IsDiskCommand(e) == e.op \in DiskOps

\* the commands format_and_mount has run so far
DiskCommands == SelectSeq(effects, IsDiskCommand)

IsRoot(n) == app.partitions[n].mount_point = <<"/">>

IsSwapKind(n) == app.partitions[n].fs_type = "Swap"

RootMountAt(j) == DiskCommands[j].op = "mount" /\ IsRoot(DiskCommands[j].i)

SwapActivationAt(j) == DiskCommands[j].op = "swapon"

OtherMountAt(j) == DiskCommands[j].op = "mount" /\ ~IsRoot(DiskCommands[j].i)

RootMountedBefore(j) ==
    \E k \in 1..(j - 1) : RootMountAt(k) /\ DiskCommands[k].ok

\* the statement as the claim words it: no swap activation and no non-root
\* mount happens before root has been mounted
C29_RootMountedFirst ==
    \A j \in 1..Len(DiskCommands) :
        (SwapActivationAt(j) \/ OtherMountAt(j)) => RootMountedBefore(j)

FirstPassAt(j) == DiskCommands[j].op \notin {"mkdir"} /\ ~OtherMountAt(j)

\* the successful mounts and swap activations of the n-th partition
Attached(n) ==
    {j \in 1..Len(DiskCommands) :
        /\ DiskCommands[j].i = n
        /\ DiskCommands[j].ok
        /\ DiskCommands[j].op \in {"mount", "swapon"}}

\* C29: for every plan, a first pass in plan order activates each swap
\* partition and mounts the root partition (a root partition of the swap
\* kind is activated, not mounted), then the remaining mount points are
\* mounted in plan order; no root mount and no swap activation happens
\* after a non-root mount.  When format_and_mount returns Ok every
\* partition has been attached once, root at the mount root and every other
\* mount point at the mount root followed by that mount point.
C29_FormatMountOrder ==
    /\ \A j, k \in 1..Len(DiskCommands) :
          j < k =>
             /\ OtherMountAt(j) => ~RootMountAt(k) /\ ~SwapActivationAt(k)
             /\ OtherMountAt(j) => ~FirstPassAt(k)
             /\ (FirstPassAt(j) /\ FirstPassAt(k)) =>
                   DiskCommands[j].i <= DiskCommands[k].i
             /\ (OtherMountAt(j) /\ OtherMountAt(k)) =>
                   DiskCommands[j].i < DiskCommands[k].i
    /\ \A j \in 1..Len(DiskCommands) :
          /\ RootMountAt(j) => DiskCommands[j].target = MountRoot
          /\ OtherMountAt(j) =>
                DiskCommands[j].target =
                   MountRoot \o app.partitions[DiskCommands[j].i].mount_point
          /\ SwapActivationAt(j) => IsSwapKind(DiskCommands[j].i)
          /\ DiskCommands[j].op = "mount" => ~IsSwapKind(DiskCommands[j].i)
    /\ (DiskCommands # << >> /\ install_thread.pc = "s3_log") =>
          \A n \in 1..Len(app.partitions) : Cardinality(Attached(n)) = 1

\* the full-disk plan with swap has been formatted and mounted: the swap
\* partition was activated before root was mounted, /boot was mounted last
C29_Witness ==
    /\ install_thread.pc = "s3_log"
    /\ Len(app.partitions) = 3
    /\ \E j, k, l \in 1..Len(DiskCommands) :
          /\ j < k /\ k < l
          /\ SwapActivationAt(j) /\ RootMountAt(k) /\ OtherMountAt(l)

\* ------------------------------------------------------------------ C30
\* the worker is between two of its log calls, or has returned: the file has
\* been truncated and no log_error is under way
BetweenLogCalls ==
    install_thread.pc \notin {"none", "s1_log", "log_error", "panicked"}

\* C30: the persistent log file mirrors the shared install log: after the
\* truncation and the header, every line the worker has appended to the
\* shared log is in the file, in the same order, as a line of its own, and
\* the error lines carry the prefix 'ERROR: ' in both.
C30_FileMirrorsLog ==
    BetweenLogCalls =>
       /\ log_file = TruncatedLogFile \o
                        [j \in 1..Len(shared_install.log) |->
                            FileLine(shared_install.log[j])]
       /\ \A j \in 1..Len(shared_install.log) :
             shared_install.log[j].k = "error" =>
                log_file[Len(TruncatedLogFile) + j].k = "error"

\* ------------------------------------------------------------------ C31
NameList(a) == [i \in 1..Len(a.users) |-> a.users[i].username]

PairwiseDistinct(l) == \A i, j \in 1..Len(l) : l[i] = l[j] => i = j

\* C31: the accumulated user list only grows: no step of the wizard,
\* confirm or back, removes or reorders an entry or changes a username, and
\* the usernames in the list are pairwise distinct.
C31_UsersOnlyGrow ==
    /\ [][IsPrefix(NameList(app), NameList(app'))]_vars
    /\ [](PairwiseDistinct(NameList(app)))

\* a second user was appended after back() from CreateUser and a new choice
\* of host: both entries are in the list, in the order of their creation
C31_Witness ==
    /\ NameList(app) = << <<"a", "a">>, <<"a">> >>
    /\ app.is_custom
    /\ app.step = "AddAnotherUser"

\* ------------------------------------------------------------------ C37
\* C37: when the install pipeline is started, the needs_hm_selection flag of
\* every user in the list is false exactly when the repository holds a user
\* configuration file for the host the installation is performed for and
\* that user's name.
C37_FlagsReflectHost ==
    app.step = "Installing" =>
        \A i \in 1..Len(app.users) :
            app.users[i].needs_hm_selection =
                ~UserConfigExists(app.host_name, app.users[i].username)

\* ------------------------------------------------------------------ C32
\* the positions in effects of the commands that wrote the host
\* configuration file, that wrote the file of user u, and that staged the
\* generated files
HostWrites == {j \in 1..Len(effects) : effects[j].op = "write_host_config"}

UserWrites(u) ==
    {j \in 1..Len(effects) : effects[j].op = "write_user_config" /\ effects[j].i = u}

Stagings == {j \in 1..Len(effects) : effects[j].op = "git_add_all"}

IsUserWrite(e) == e.op = "write_user_config"

\* C32: the pipeline writes the host configuration file if and only if the
\* wizard was in custom mode when the pipeline was started, and in both
\* modes it writes one user file for every user of the list, in list order,
\* before it stages the files for version control.
C32_GeneratedArtifacts ==
    /\ HostWrites # {} => app.is_custom
    /\ Cardinality(HostWrites) <= 1
    /\ \A j \in 1..Len(SelectSeq(effects, IsUserWrite)) :
          SelectSeq(effects, IsUserWrite)[j].i = j
    /\ \A u \in 1..Len(app.users), h \in HostWrites :
          \A j \in UserWrites(u) : h < j
    /\ \A g \in Stagings :
          /\ app.is_custom <=> \E h \in HostWrites : h < g /\ effects[h].ok
          /\ \A u \in 1..Len(app.users) :
                /\ Cardinality(UserWrites(u)) = 1
                /\ \A j \in UserWrites(u) : j < g /\ effects[j].ok
          /\ \A j \in HostWrites : j < g

\* a preset-mode run has staged its files: no host file, two user files
C32_Witness ==
    /\ ~app.is_custom
    /\ Len(app.users) = 2
    /\ Stagings # {}
    /\ HostWrites = {}
    /\ UserWrites(1) # {} /\ UserWrites(2) # {}

\* ------------------------------------------------------------------ C33
\* an entry has just been appended to the plan
EntryAppended == Len(app'.partitions) = Len(app.partitions) + 1

Hyphenated(path) == [i \in 1..Len(path) |-> IF path[i] = "/" THEN "-" ELSE path[i]]

\* the number of slashes path begins with
LeadingSlashes(path) ==
    Cardinality({n \in 1..Len(path) : \A i \in 1..n : path[i] = "/"})

WithoutLeadingSlashes(path) ==
    SubSeq(path, LeadingSlashes(path) + 1, Len(path))

FixedLabel(m) ==
    CASE m = <<"/">> -> <<"r", "o", "o", "t">>
      [] m = <<"/", "b", "o", "o", "t">> -> <<"E", "F", "I">>
      [] m = <<"s", "w", "a", "p">> -> <<"s", "w", "a", "p">>
      [] OTHER -> <<>>

\* the statement as the claim words it: every other mount point is labelled
\* with the path, its slashes replaced by hyphens
C33_LabelHyphenatesPath ==
    [][EntryAppended =>
          LET e == Last(app'.partitions) IN
             e.label = IF FixedLabel(e.mount_point) # <<>>
                       THEN FixedLabel(e.mount_point)
                       ELSE Hyphenated(e.mount_point)]_vars

\* C33: for every accepted mount point m, the trimmed input, the appended
\* entry has the label 'root' if m = '/', 'EFI' if m = '/boot', 'swap' if
\* m = 'swap', and otherwise the path m without its leading slashes and
\* with its remaining slashes replaced by hyphens.
C33_LabelDerivation ==
    [][EntryAppended =>
          LET e == Last(app'.partitions) IN
             /\ e.mount_point = Trim(app.part_mount_input)
             /\ e.label = IF FixedLabel(e.mount_point) # <<>>
                          THEN FixedLabel(e.mount_point)
                          ELSE Hyphenated(WithoutLeadingSlashes(e.mount_point))]_vars

\* the entry for /a/b has been appended with the label a-b
C33_Witness ==
    /\ app.step = "CustomPartitionAnother"
    /\ app.partitions # <<>>
    /\ Last(app.partitions).mount_point = <<"/", "a", "/", "b">>
    /\ Last(app.partitions).label = <<"a", "-", "b">>


\* ------------------------------------------------------------------ C34
\* the worker's step that flushes the partial line left in the buffer when
\* git's output has ended
FlushesLine == clone_thread.pc = "flush" /\ clone_thread'.pc = "wait"

\* C34: a partial line left at the end of the stream is appended to the log
\* as a last line and is scanned for a percentage like every completed
\* line: percent becomes the number before its first '%' when there is one
\* of at most 255, and is unchanged otherwise.
C34_FlushedLikeCompleted ==
    [][ FlushesLine =>
          LET line == clone_thread.buf
              first == Least(PercentSigns(line))
              stored == /\ PercentSigns(line) # {}
                        /\ DigitRun(line, first) > 0
                        /\ NumberBefore(line, first) <= U8Max
          IN /\ shared_clone'.log = Append(shared_clone.log, line)
             /\ shared_clone'.percent =
                   IF stored THEN NumberBefore(line, first)
                   ELSE shared_clone.percent
      ]_vars

\* ------------------------------------------------------------------ C39
\* the counter values the worker's stages store, the last one being that of
\* the last post-install hook: 1..6 for the fixed stages, then one value per
\* pre-install hook, nixos-install, the copy, one per post-install hook
StageCounters ==
    1..(FirstHookStep + Len(install_thread.pre_hooks)
        + Len(install_thread.post_hooks) + 1)

\* the start message of the stage that stores the counter value k
StageStart(k) ==
    LET npre == Len(install_thread.pre_hooks)
        first == FirstHookStep
    IN CASE k = 1 -> Line("start", "Partitioning", 0)
         [] k = 2 -> Line("start", "Formatting and mounting partitions", 0)
         [] k = 3 -> Line("start", "Generating hardware configuration", 0)
         [] k = 4 -> Line("start", "Writing hardware configuration", 0)
         [] k = 5 -> Line("start", "Writing host configuration", 0)
         [] k = 6 -> Line("start", "Staging generated files (git add)", 0)
         [] k >= first /\ k < first + npre ->
               Line("start", "Running pre-install hook", k - first + 1)
         [] k = first + npre -> Line("start", "Running nixos-install", 0)
         [] k = first + npre + 1 ->
               Line("start", "Copying repository to /mnt/etc/nixos/", 0)
         [] OTHER ->
               Line("start", "Running post-install hook", k - first - npre - 1)

Logged(msg) == \E j \in 1..Len(shared_install.log) : shared_install.log[j] = msg

\* C39: whenever the shared install record holds progress = k >= 1, the
\* start message of stage k is already in its log.  (Stage 5 has a start
\* message in custom mode only, and the value stored before 'Installation
\* complete!' belongs to no stage: neither is constrained.)
C39_ProgressAfterStart ==
    LET k == shared_install.progress IN
       (k \in StageCounters /\ (k = 5 => install_thread.is_custom))
          => Logged(StageStart(k))

\* ------------------------------------------------------------------ C40
\* the last n entries of the shared log are the n lines of the error message
EndsWithErrorLines(msg, n) ==
    LET log == shared_install.log IN
       /\ Len(log) >= n
       /\ \A j \in 1..n : log[Len(log) - n + j] = Line("error", msg, j)

\* C40: in every state of the shared install record, a stored error is
\* explained by the error lines of its message at the end of the log, and
\* done holds only without an error and with the completion message as the
\* last log line.
C40_TerminalFlagsExplained ==
    /\ shared_install.error # None =>
          \E n \in 1..MaxErrLines : EndsWithErrorLines(shared_install.error, n)
    /\ shared_install.done =>
          /\ shared_install.error = None
          /\ shared_install.log # <<>>
          /\ Last(shared_install.log) = Line("start", "Installation complete!", 0)

\* format_and_mount has failed with a message of two lines; both are at the
\* end of the log, the error is stored and the worker has returned
C40_Witness ==
    /\ install_thread.pc = "returned"
    /\ shared_install.error = "Format/mount failed"
    /\ ~shared_install.done
    /\ EndsWithErrorLines("Format/mount failed", 2)
    /\ Len(shared_install.log) = 4

\* ------------------------------------------------------------------ C36
\* Installing and the steps that follow it
InstallEntered ==
    app.step \in {"Installing", "RootPassword", "RootPasswordConfirm",
                  "UserPassword", "UserPasswordConfirm", "Complete"}

\* a step of the program that starts an install worker
WorkerSpawned == install_thread'.pc = "s1_log" /\ install_thread.pc # "s1_log"

\* how often partition_disk has run
Partitionings == Cardinality({j \in 1..Len(effects) : effects[j].op = "partition_disk"})

\* C36: once the wizard has entered Installing it never shows Confirm or an
\* earlier step again; an install worker is started only from Confirm and
\* only when none has been started before, and partition_disk runs at most
\* once.
C36_InstallStartedOnce ==
    /\ [][InstallEntered => InstallEntered']_vars
    /\ [][WorkerSpawned => app.step = "Confirm" /\ install_thread.pc = "none"]_vars
    /\ [][install_thread.pc # "none" => install_thread'.pc # "none"]_vars
    /\ [](Partitionings <= 1)

\* the installation has run to its end, the passwords are set and the wizard
\* shows Complete: one worker, returned, and one partitioning
C36_Witness ==
    /\ app.step = "Complete"
    /\ install_thread.pc = "returned"
    /\ Partitionings = 1

\* ------------------------------------------------------------------ C38
\* SelectDisk and the steps that follow it
FromSelectDisk ==
    app.step \in {"SelectDisk", "PartitionModeSelect", "SwapSize",
                  "CustomPartitionMount", "CustomPartitionSize",
                  "CustomPartitionFs", "CustomPartitionAnother", "Confirm",
                  "Installing", "RootPassword", "RootPasswordConfirm",
                  "UserPassword", "UserPasswordConfirm", "Complete"}

\* C38: on SelectHmModules and SelectUserPackages hm_user_index (counted
\* from 0) is an index of the user list and that user needs the selection;
\* on UserPassword and UserPasswordConfirm password_user_index is an index
\* of the user list; from SelectDisk onward the user list is not empty.
C38_UserWalkIndices ==
    /\ app.step \in {"SelectHmModules", "SelectUserPackages"} =>
          /\ app.hm_user_index \in 0..(Len(app.users) - 1)
          /\ app.users[app.hm_user_index + 1].needs_hm_selection
    /\ app.step \in {"UserPassword", "UserPasswordConfirm"} =>
          app.password_user_index \in 0..(Len(app.users) - 1)
    /\ FromSelectDisk => app.users # <<>>

\* the second of two users is at the package step of the walk, the first
\* one needing no selection
C38_Witness ==
    /\ app.step = "SelectUserPackages"
    /\ Len(app.users) = 2
    /\ app.hm_user_index = 1
    /\ ~app.users[1].needs_hm_selection
    /\ app.users[2].needs_hm_selection

\* ------------------------------------------------------------------ C35
\* the worker has returned with exactly one of done and error stored
WorkerConcluded ==
    /\ install_thread.pc = "returned"
    /\ shared_install.done # (shared_install.error # None)

\* C35: the worker eventually stores exactly one of done and error and
\* returns, and the foreground eventually leaves Installing for RootPassword
\* or shows the error: the wizard does not stay on Installing for ever with
\* neither of them observed.
C35_InstallTerminates ==
    /\ <>[]WorkerConcluded
    /\ <>(app.step = "RootPassword" \/ app.install_error # None)

\* every stage has succeeded, the worker has stored done and returned, and
\* the foreground has advanced to RootPassword
C35_Witness ==
    /\ app.step = "RootPassword"
    /\ install_thread.pc = "returned"
    /\ shared_install.done
    /\ shared_install.error = None

====
